---- MODULE Spec2Model ----
(***************************************************************************)
(* getlrc: the worker pool (src/src/worker.rs), the session store          *)
(* (src/src/session.rs), the negative cache (src/src/cache), the search    *)
(* strategy (src/src/api/mod.rs), the metadata normalizer                  *)
(* (src/src/scanner/clean.rs), the start-up path (src/src/main.rs) and the *)
(* terminal front end that feeds the control channel (src/src/tui).        *)
(*                                                                         *)
(* One process run is: Startup, then the coordinator task, the worker      *)
(* tasks, the joining main task and the front end running concurrently.    *)
(* Every step of a task is one acquisition of a tokio Mutex (or one        *)
(* channel operation) together with the task-local code around it.  The    *)
(* disk (session file, sidecar files, negative-cache database) survives a  *)
(* Restart; everything else is rebuilt by Startup.                         *)
(***************************************************************************)
EXTENDS Integers, Sequences, FiniteSets, Bags, TLC

\* ------------------------------------------------------------------------
\* Bounds of the model
\* ------------------------------------------------------------------------
\* process runs, key presses over all runs, worker tasks that are between
\* their first poll and their exit at the same time
MaxRuns == 2
MaxKeys == 2
MaxActive == 2
\* largest counter value of a session that is saved and loaded
MaxCount == 4
\* how far past MAX_LOG_HISTORY the log of a saved session goes
MaxOver == 2
\* add_log calls made on top of the starting log
MaxAdds == 3
\* longest pending list given to the integrity check
MaxPending == 12
\* longest string given to the cleaning transforms
MaxLen == 3

\* ------------------------------------------------------------------------
\* Program constants
\* ------------------------------------------------------------------------
MAX_CONCURRENT_WORKERS == 5
MAX_LOG_HISTORY == 500
INTEGRITY_CHECK_SAMPLE_SIZE == 10
INTEGRITY_CHECK_THRESHOLD == 5
\* SIMILARITY_THRESHOLD_AUTO = 0.85 and SIMILARITY_THRESHOLD_POTENTIAL = 0.6,
\* in hundredths
SIMILARITY_THRESHOLD_AUTO == 85
SIMILARITY_THRESHOLD_POTENTIAL == 60

\* ------------------------------------------------------------------------
\* Strings are sequences of one-character strings.
\* ------------------------------------------------------------------------
Range(s) == {s[i] : i \in DOMAIN s}

Min(a, b) == IF a < b THEN a ELSE b

UpperLetters == <<"A","B","C","D","E","F","G","H","I","J","K","L","M",
                  "N","O","P","Q","R","S","T","U","V","W","X","Y","Z">>
LowerLetters == <<"a","b","c","d","e","f","g","h","i","j","k","l","m",
                  "n","o","p","q","r","s","t","u","v","w","x","y","z">>

LowerChar(c) ==
    IF \E i \in 1..26 : UpperLetters[i] = c
    THEN LowerLetters[CHOOSE i \in 1..26 : UpperLetters[i] = c]
    ELSE c

to_lowercase(s) == [i \in 1..Len(s) |-> LowerChar(s[i])]

IsSpace(c) == c = " "

\* number of consecutive characters of the class cls in s from position i on
RECURSIVE RunLen(_, _, _)
RunLen(s, i, cls) ==
    IF i > Len(s) \/ s[i] \notin cls THEN 0 ELSE 1 + RunLen(s, i + 1, cls)

\* TRACK_NUMBER_REGEX  ^\d+[\.\-\s]+  replaced by ""
StripTrackNumber(s) ==
    LET digits == {"0","1","2","3","4","5","6","7","8","9"}
        d == RunLen(s, 1, digits)
        k == RunLen(s, d + 1, {".", "-", " "})
    IN  IF d >= 1 /\ k >= 1 THEN SubSeq(s, d + k + 1, Len(s)) ELSE s

\* PUNCTUATION_REGEX  [_\-&\.]  replace_all by " "
ReplacePunctuation(s) ==
    [i \in 1..Len(s) |-> IF s[i] \in {"_", "-", "&", "."} THEN " " ELSE s[i]]

\* WHITESPACE_REGEX  \s+  replace_all by " "
RECURSIVE CollapseWhitespace(_)
CollapseWhitespace(s) ==
    IF Len(s) <= 1 THEN s
    ELSE IF IsSpace(s[1]) /\ IsSpace(s[2]) THEN CollapseWhitespace(Tail(s))
    ELSE <<s[1]>> \o CollapseWhitespace(Tail(s))

\* str::trim
RECURSIVE TrimStart(_)
TrimStart(s) == IF s # <<>> /\ IsSpace(s[1]) THEN TrimStart(Tail(s)) ELSE s
RECURSIVE TrimEnd(_)
TrimEnd(s) ==
    IF s # <<>> /\ IsSpace(s[Len(s)]) THEN TrimEnd(SubSeq(s, 1, Len(s) - 1)) ELSE s
Trim(s) == TrimEnd(TrimStart(s))

clean_string(input) ==
    to_lowercase(Trim(CollapseWhitespace(ReplacePunctuation(StripTrackNumber(input)))))

\* FEAT_REGEX
\*   (?i)\s*[\(\[]?\s*(feat\.?|ft\.?|featuring|with|w/)\s+[^\)\]]*[\)\]]?
FeatKeywords ==
    { <<"f","e","a","t">>, <<"f","e","a","t",".">>, <<"f","t">>, <<"f","t",".">>,
      <<"f","e","a","t","u","r","i","n","g">>, <<"w","i","t","h">>, <<"w","/">> }

\* keyword kw (case-insensitively) at position j of s, followed by \s
KeywordAt(s, j, kw) ==
    /\ j + Len(kw) <= Len(s)
    /\ \A k \in 1..Len(kw) : LowerChar(s[j + k - 1]) = kw[k]
    /\ IsSpace(s[j + Len(kw)])

\* the part  \s*[\(\[]?\s*(keyword)\s  of FEAT_REGEX matches at position i
FeatStartsAt(s, i) ==
    \E a \in 0..RunLen(s, i, {" "}) :
      \E br \in 0..1 :
        /\ br = 1 => (i + a <= Len(s) /\ s[i + a] \in {"(", "["})
        /\ \E b \in 0..RunLen(s, i + a + br, {" "}) :
             \E kw \in FeatKeywords : KeywordAt(s, i + a + br + b, kw)

\* the match runs through [^\)\]]* and one optional closing bracket
FeatEnd(s, i) ==
    LET closers == {j \in i..Len(s) : s[j] \in {")", "]"}}
    IN  IF closers = {} THEN Len(s)
        ELSE CHOOSE j \in closers : \A k \in closers : j <= k

\* FEAT_REGEX replace_all by "": leftmost non-overlapping matches
RECURSIVE RemoveFeatFrom(_, _)
RemoveFeatFrom(s, i) ==
    IF i > Len(s) THEN <<>>
    ELSE IF FeatStartsAt(s, i) THEN RemoveFeatFrom(s, FeatEnd(s, i) + 1)
    ELSE <<s[i]>> \o RemoveFeatFrom(s, i + 1)

RemoveFeat(s) == RemoveFeatFrom(s, 1)

\* str::replace(['(', ')'], " ") then str::replace(['[', ']'], " ")
ReplaceBrackets(s) ==
    [i \in 1..Len(s) |-> IF s[i] \in {"(", ")", "[", "]"} THEN " " ELSE s[i]]

clean_title(title) == clean_string(ReplaceBrackets(RemoveFeat(title)))

clean_title_keep_parens(title) == clean_string(ReplaceBrackets(RemoveFeat(title)))

normalize_metadata(artist, title, album) ==
    [ artist |-> clean_string(artist),
      title |-> clean_title_keep_parens(title),
      album |-> clean_string(album),
      original_artist |-> artist,
      original_title |-> title ]

get_stripped_title(normalized) == clean_title(normalized.original_title)

\* ------------------------------------------------------------------------
\* The music directory: the audio files in walk order and their tags
\* ------------------------------------------------------------------------
AllAudioFiles == <<"f1", "f2", "f3", "f4", "f5", "f6">>
Files == Range(AllAudioFiles)
NoItem == "none"

\* f1 and f3..f6 are copies of one song (equal tags); the title of f2
\* carries a track number, a featuring clause and a bracket qualifier
TagsOf(f) ==
    IF f = "f2"
    THEN [ artist |-> <<"A","b">>,
           title |-> <<"2","."," ","H","i"," ","(","f","t","."," ","X",")"," ","[","L","]">>,
           album |-> <<"c">>, duration_secs |-> 9 ]
    ELSE [ artist |-> <<"A","b">>, title |-> <<"G","o">>,
           album |-> <<"c">>, duration_secs |-> 7 ]

\* the directory the interrupted runs work on, and what may be left of it
\* when the process is started again
SmallDir == {"f1", "f2"}
\* the directory of the uninterrupted run: the two copies of one song
TwinDir == {"f1", "f3"}
DirChoices == {SmallDir, {}}

\* TrackSignature and generate_hash: the digest of the serialized signature;
\* SHA-256 is taken to be collision free, so the digest is the serialized
\* tuple itself.  Durations stay far below 2^32, where `as u32` changes nothing.
TrackSignature(track) ==
    [ artist |-> track.artist, title |-> track.title,
      album |-> track.album, duration_sec |-> track.duration_secs ]

generate_hash(sig) == <<sig.artist, sig.title, sig.album, sig.duration_sec>>

\* ------------------------------------------------------------------------
\* Session store
\* ------------------------------------------------------------------------
NoSession == [absent |-> TRUE]

NewSession(root_path, pending_files) ==
    [ root_path |-> root_path, pending_files |-> pending_files,
      downloaded_count |-> 0, cached_count |-> 0, existing_count |-> 0,
      failed_count |-> 0, log_history |-> <<>> ]

\* a cap that keeps the oldest entries
cap_log_history_oldest(sess) ==
    IF Len(sess.log_history) > MAX_LOG_HISTORY
    THEN [sess EXCEPT !.log_history = SubSeq(@, 1, MAX_LOG_HISTORY)]
    ELSE sess

\* PersistentSession::cap_log_history
cap_log_history(sess) ==
    IF Len(sess.log_history) > MAX_LOG_HISTORY
    THEN [sess EXCEPT !.log_history =
            SubSeq(@, Len(@) - MAX_LOG_HISTORY + 1, Len(@))]
    ELSE sess

\* the content of the file after save: the capped copy
save(sess) == cap_log_history(sess)

\* PersistentSession::delete
delete(file) == NoSession

\* an add_log that drops the new entry when the log is full
add_log_keep_oldest(sess, filename, status) ==
    LET pushed == Append(sess.log_history, [filename |-> filename, status |-> status])
    IN  [sess EXCEPT !.log_history =
            IF Len(pushed) > MAX_LOG_HISTORY
            THEN SubSeq(pushed, 1, MAX_LOG_HISTORY)
            ELSE pushed]

\* PersistentSession::add_log
add_log(sess, filename, status) ==
    LET pushed == Append(sess.log_history, [filename |-> filename, status |-> status])
    IN  [sess EXCEPT !.log_history =
            IF Len(pushed) > MAX_LOG_HISTORY
            THEN SubSeq(pushed, Len(pushed) - MAX_LOG_HISTORY + 1, Len(pushed))
            ELSE pushed]

\* a check that still accepts when the threshold is reached
check_integrity_at_threshold(sess, present) ==
    IF sess.pending_files = <<>> THEN FALSE
    ELSE LET sample_size == Min(INTEGRITY_CHECK_SAMPLE_SIZE, Len(sess.pending_files))
             missing_count ==
                 Cardinality({i \in 1..sample_size : sess.pending_files[i] \notin present})
         IN  missing_count <= INTEGRITY_CHECK_THRESHOLD

\* present: the set of paths that exist on disk
check_integrity(sess, present) ==
    IF sess.pending_files = <<>> THEN FALSE
    ELSE LET sample_size == Min(INTEGRITY_CHECK_SAMPLE_SIZE, Len(sess.pending_files))
             missing_count ==
                 Cardinality({i \in 1..sample_size : sess.pending_files[i] \notin present})
         IN  missing_count < INTEGRITY_CHECK_THRESHOLD

\* ------------------------------------------------------------------------
\* The session file: the JSON text serde_json writes for a PersistentSession,
\* as its sequence of tokens.  A file is NoSession (it does not exist) or
\* [text |-> tokens].
\* ------------------------------------------------------------------------
StatusType == {"Downloaded", "Cached", "Existing", "NotFound", "Error"}

Punct(c) == [k |-> "punct", v |-> c]
Key(name) == [k |-> "key", v |-> name]
Str(str) == [k |-> "string", v |-> str]

\* the decimal text of the numbers a usize field holds here
Decimal == [n \in 0..MaxCount |-> ToString(n)]
Num(n) == [k |-> "number", v |-> Decimal[n]]

\* a path that is not valid UTF-8: serde refuses to serialize it
NonUtf8 == {"f\\xff"}

File(text) == [text |-> text]

\* one LogEntry
EntryTokens(e) ==
    << Punct("{"), Key("filename"), Str(e.filename),
       Key("status"), Str(e.status), Punct("}") >>
EntryLen == Len(EntryTokens([filename |-> "", status |-> "Error"]))

\* serde_json::to_string_pretty(&session): Err when a path is not UTF-8
to_string_pretty(sess) ==
    LET p == sess.pending_files
        l == sess.log_history
    IN  IF sess.root_path \in NonUtf8 \/ \E i \in DOMAIN p : p[i] \in NonUtf8
        THEN [ok |-> FALSE]
        ELSE [ok |-> TRUE, text |->
                << Punct("{"), Key("root_path"), Str(sess.root_path),
                   Key("pending_files"), Punct("[") >>
                \o [i \in 1..Len(p) |-> Str(p[i])]
                \o << Punct("]"),
                      Key("downloaded_count"), Num(sess.downloaded_count),
                      Key("cached_count"), Num(sess.cached_count),
                      Key("existing_count"), Num(sess.existing_count),
                      Key("failed_count"), Num(sess.failed_count),
                      Key("log_history"), Punct("[") >>
                \o [i \in 1..(EntryLen * Len(l)) |->
                       EntryTokens(l[((i - 1) \div EntryLen) + 1])[((i - 1) % EntryLen) + 1]]
                \o << Punct("]"), Punct("}") >> ]

\* index of the first "]" at or after position from, 0 when there is none
ArrayEnd(json, from) ==
    LET ends == {j \in from..Len(json) : json[j] = Punct("]")}
    IN  IF ends = {} THEN 0 ELSE CHOOSE j \in ends : \A k \in ends : j <= k

IsNum(t) == t.k = "number" /\ \E n \in DOMAIN Decimal : Decimal[n] = t.v
ParseNum(t) == CHOOSE n \in DOMAIN Decimal : Decimal[n] = t.v

\* serde_json::from_str::<PersistentSession>(&json): Err on a text that is
\* not a whole PersistentSession object
from_str(json) ==
    LET n == Len(json)
        pEnd == ArrayEnd(json, 6)
        lStart == pEnd + 11
        lEnd == ArrayEnd(json, lStart)
        count == (lEnd - lStart) \div EntryLen
        EntryAt(i) == SubSeq(json, lStart + EntryLen * (i - 1), lStart + EntryLen * i - 1)
        EntryOk(i) ==
            LET e == EntryAt(i)
            IN  /\ e[1] = Punct("{") /\ e[2] = Key("filename") /\ e[3].k = "string"
                /\ e[4] = Key("status") /\ e[5].k = "string" /\ e[5].v \in StatusType
                /\ e[6] = Punct("}")
        ok ==
            /\ n >= 5
            /\ SubSeq(json, 1, 2) = << Punct("{"), Key("root_path") >>
            /\ json[3].k = "string"
            /\ SubSeq(json, 4, 5) = << Key("pending_files"), Punct("[") >>
            /\ pEnd # 0
            /\ \A i \in 6..(pEnd - 1) : json[i].k = "string"
            /\ n >= pEnd + 10
            /\ json[pEnd + 1] = Key("downloaded_count") /\ IsNum(json[pEnd + 2])
            /\ json[pEnd + 3] = Key("cached_count") /\ IsNum(json[pEnd + 4])
            /\ json[pEnd + 5] = Key("existing_count") /\ IsNum(json[pEnd + 6])
            /\ json[pEnd + 7] = Key("failed_count") /\ IsNum(json[pEnd + 8])
            /\ json[pEnd + 9] = Key("log_history") /\ json[pEnd + 10] = Punct("[")
            /\ lEnd # 0
            /\ (lEnd - lStart) % EntryLen = 0
            /\ \A i \in 1..count : EntryOk(i)
            /\ n = lEnd + 1
            /\ json[n] = Punct("}")
    IN  IF ~ok THEN [ok |-> FALSE]
        ELSE [ok |-> TRUE, session |->
                [ root_path |-> json[3].v,
                  pending_files |-> [i \in 1..(pEnd - 6) |-> json[5 + i].v],
                  downloaded_count |-> ParseNum(json[pEnd + 2]),
                  cached_count |-> ParseNum(json[pEnd + 4]),
                  existing_count |-> ParseNum(json[pEnd + 6]),
                  failed_count |-> ParseNum(json[pEnd + 8]),
                  log_history |-> [i \in 1..count |->
                      [filename |-> EntryAt(i)[3].v, status |-> EntryAt(i)[5].v]] ]]

\* PersistentSession::load of the file at the final path
load(file) ==
    IF file = NoSession THEN [ok |-> FALSE] ELSE from_str(file.text)

\* ------------------------------------------------------------------------
\* State
\* ------------------------------------------------------------------------
VARIABLES
    \* disk
    sessionFile,     \* content of the session file, or NoSession
    tempFile,        \* content of the temporary file of save, or NoSession
    lrcFiles,        \* audio files that have a .lrc sidecar
    cacheDb,         \* signatures in the negative_cache table
    dir,             \* audio files that exist in the directory
    \* one process run
    run,             \* number of the process run
    mainPc,          \* position of worker::run
    is_resuming,
    session,         \* WorkerPoolState.session
    downloaded, cached, failed,   \* WorkerPoolState counters
    existing,
    work_queue,
    paused, should_quit,
    workers,         \* bag of worker tasks [pc, item]
    coordPc,         \* position of the control message handler task
    ui_rx,           \* control channel, front end -> coordinator
    tx,              \* status stream sent in this run, worker -> front end
    app,             \* AppState of the front end
    keys,            \* key presses so far, over all runs
    \* history
    files_to_process,  \* the queue as built at start-up
    popped,            \* items in the order they were popped
    outcome,           \* how process_file ended for each item in this run
    lookups, rlWaits, queries,  \* per item: cache lookups, limiter waits, catalog queries
    prevRun,           \* what the previous run left behind
    probe              \* single-operation specifications: the inputs drawn and
                       \* the calls made so far; NoProbe in the runs of the program

diskVars == <<sessionFile, tempFile, lrcFiles, cacheDb, dir>>
flagVars == <<paused, should_quit>>
countVars == <<downloaded, cached, failed>>
statVars == <<lookups, rlWaits, queries>>
\* everything but the session, its two files and the probe
runVars == <<lrcFiles, cacheDb, dir, run, mainPc, is_resuming, downloaded, cached,
             failed, existing, work_queue, paused, should_quit, workers, coordPc,
             ui_rx, tx, app, keys, files_to_process, popped, outcome, lookups,
             rlWaits, queries, prevRun>>
vars == <<sessionFile, tempFile, lrcFiles, cacheDb, dir, run, mainPc, is_resuming,
          session, downloaded, cached, failed, existing, work_queue, paused,
          should_quit, workers, coordPc, ui_rx, tx, app, keys,
          files_to_process, popped, outcome, lookups, rlWaits, queries, prevRun, probe>>

Zero == [f \in Files |-> 0]

NoProbe == [op |-> "none"]

\* a worker task: spawned and not yet polled, in its loop, gone
Spawned == [pc |-> "spawned", item |-> NoItem]
Looping == [pc |-> "loop", item |-> NoItem]
Exited == [pc |-> "exited", item |-> NoItem]

NewAppState == [ status |-> "Idle", paused |-> FALSE, should_quit |-> FALSE ]

\* what an earlier run on SmallDir leaves when it is paused and quit after f1
\* was downloaded: the sidecar of f1 and the checkpoint of the queue <<f2>>
LeftSession ==
    save([add_log(NewSession("root", <<"f1", "f2">>), "f1", "Downloaded")
            EXCEPT !.pending_files = <<"f2">>])

\* the disk at the first start: nothing yet, or what that earlier run left
InitialDisks ==
    { [sessionFile |-> NoSession, lrcFiles |-> {}, downloaded |-> {}, pausedQuit |-> FALSE],
      [sessionFile |-> LeftSession, lrcFiles |-> {"f1"}, downloaded |-> {"f1"},
       pausedQuit |-> TRUE] }

Init ==
    /\ \E d \in InitialDisks :
         /\ sessionFile = d.sessionFile
         /\ lrcFiles = d.lrcFiles
         /\ prevRun = [downloaded |-> d.downloaded, pausedQuit |-> d.pausedQuit]
    /\ tempFile = NoSession
    /\ probe = NoProbe
    /\ cacheDb = {}
    /\ dir = SmallDir
    /\ run = 1
    /\ mainPc = "start"
    /\ is_resuming = FALSE
    /\ session = NoSession
    /\ downloaded = 0 /\ cached = 0 /\ failed = 0 /\ existing = 0
    /\ work_queue = <<>>
    /\ paused = FALSE /\ should_quit = FALSE
    /\ workers = EmptyBag
    /\ coordPc = "unspawned"
    /\ ui_rx = <<>>
    /\ tx = <<>>
    /\ app = NewAppState
    /\ keys = 0
    /\ files_to_process = <<>>
    /\ popped = <<>>
    /\ outcome = [f \in Files |-> "none"]
    /\ lookups = Zero /\ rlWaits = Zero /\ queries = Zero

\* ------------------------------------------------------------------------
\* Front end: tui/state.rs AppState::update and tui/mod.rs run_loop
\* ------------------------------------------------------------------------
Msg(type, path) == [type |-> type, path |-> path]

\* a front end that takes a track being processed for a sign of scanning
AppUpdateTrackIsScanning(st, msg) ==
    CASE msg.type = "SessionRestoring" -> [st EXCEPT !.status = "Restoring", !.paused = TRUE]
      [] msg.type = "ScanProgress" -> [st EXCEPT !.status = "Scanning"]
      [] msg.type = "ScanStarted" -> [st EXCEPT !.status = "Processing"]
      [] msg.type = "TrackProcessing" -> [st EXCEPT !.status = "Scanning"]
      [] msg.type = "ScanComplete" -> [st EXCEPT !.status = "Complete"]
      [] OTHER -> st

AppUpdate(st, msg) ==
    CASE msg.type = "SessionRestoring" -> [st EXCEPT !.status = "Restoring", !.paused = TRUE]
      [] msg.type = "ScanProgress" -> [st EXCEPT !.status = "Scanning"]
      [] msg.type = "ScanStarted" -> [st EXCEPT !.status = "Processing"]
      [] msg.type = "TrackProcessing" -> [st EXCEPT !.status = "Processing"]
      [] msg.type = "ScanComplete" -> [st EXCEPT !.status = "Complete"]
      [] OTHER -> st

RECURSIVE AppUpdateAll(_, _)
AppUpdateAll(st, msgs) ==
    IF msgs = <<>> THEN st ELSE AppUpdateAll(AppUpdate(st, msgs[1]), Tail(msgs))

\* tx.send(..) for each of msgs.  The front end loop drains the channel every
\* 16 ms (while let Ok(msg) = worker_rx.try_recv() { state.update(msg) }); the
\* model lets it be caught up whenever it handles a key: tx is the stream
\* sent in this run, app the state after all of it that the loop took in
\* before it ended on the quit key.
Send(msgs) ==
    /\ tx' = tx \o msgs
    /\ app' = IF app.should_quit THEN app ELSE AppUpdateAll(app, msgs)

\* key 'p'
UiKeyPause ==
    /\ mainPc # "start"
    /\ ~app.should_quit
    /\ ~app.paused
    /\ keys < MaxKeys
    /\ app' = [app EXCEPT !.paused = TRUE]
    /\ ui_rx' = Append(ui_rx, "Pause")
    /\ keys' = keys + 1
    /\ UNCHANGED <<diskVars, run, mainPc, is_resuming, session, countVars, existing,
                   work_queue, flagVars, workers, coordPc, tx,
                   files_to_process, popped, outcome, statVars, prevRun, probe>>

\* key 'r'
UiKeyResume ==
    /\ mainPc # "start"
    /\ ~app.should_quit
    /\ app.paused
    /\ keys < MaxKeys
    /\ app' = [app EXCEPT !.paused = FALSE]
    /\ ui_rx' = Append(ui_rx, "Resume")
    /\ keys' = keys + 1
    /\ UNCHANGED <<diskVars, run, mainPc, is_resuming, session, countVars, existing,
                   work_queue, flagVars, workers, coordPc, tx,
                   files_to_process, popped, outcome, statVars, prevRun, probe>>

\* key 'q' or Esc: the loop ends
UiKeyQuit ==
    /\ mainPc # "start"
    /\ ~app.should_quit
    /\ keys < MaxKeys
    /\ app' = [app EXCEPT !.should_quit = TRUE]
    /\ ui_rx' = Append(ui_rx, "Quit")
    /\ keys' = keys + 1
    /\ UNCHANGED <<diskVars, run, mainPc, is_resuming, session, countVars, existing,
                   work_queue, flagVars, workers, coordPc, tx,
                   files_to_process, popped, outcome, statVars, prevRun, probe>>

\* ------------------------------------------------------------------------
\* Start-up: main.rs run_scanner, then worker::run up to the spawns
\* ------------------------------------------------------------------------
\* a CountsRestored whose processed count takes in the existing sidecars
CountsRestoredWithExisting(sess) ==
    [ type |-> "CountsRestored", path |-> NoItem,
      downloaded |-> sess.downloaded_count, cached |-> sess.cached_count,
      skipped |-> sess.existing_count,
      processed |-> sess.downloaded_count + sess.cached_count + sess.failed_count
                    + sess.existing_count ]

\* WorkerMessage::CountsRestored { downloaded, cached, skipped: existing,
\* processed: downloaded + cached + failed }
CountsRestored(sess) ==
    [ type |-> "CountsRestored", path |-> NoItem,
      downloaded |-> sess.downloaded_count, cached |-> sess.cached_count,
      skipped |-> sess.existing_count,
      processed |-> sess.downloaded_count + sess.cached_count + sess.failed_count ]

RECURSIVE LogRestoreMsgs(_)
LogRestoreMsgs(log) ==
    IF log = <<>> THEN <<>>
    ELSE <<[type |-> "LogRestore", path |-> log[1].filename, status |-> log[1].status]>>
         \o LogRestoreMsgs(Tail(log))

RECURSIVE AlreadyHasLrcMsgs(_)
AlreadyHasLrcMsgs(paths) ==
    IF paths = <<>> THEN <<>>
    ELSE <<Msg("AlreadyHasLrc", paths[1])>> \o AlreadyHasLrcMsgs(Tail(paths))

has_lrc_sidecar(f) == f \in lrcFiles

walk_directory_parallel == SelectSeq(AllAudioFiles, LAMBDA f : f \in dir)

\* run_scanner: the session handed to worker::run, or NoSession
LoadedSession ==
    IF sessionFile # NoSession /\ check_integrity(sessionFile, dir)
    THEN sessionFile ELSE NoSession

\* a start-up that spawns one worker task more than MAX_CONCURRENT_WORKERS
StartupOneWorkerMore ==
    /\ mainPc = "start"
    /\ LET sess == LoadedSession
           all_audio_files == walk_directory_parallel
           with_lrc == SelectSeq(all_audio_files, has_lrc_sidecar)
           fresh == SelectSeq(all_audio_files, LAMBDA f : ~has_lrc_sidecar(f))
           todo == IF sess # NoSession THEN sess.pending_files ELSE fresh
       IN  /\ sessionFile' = IF sessionFile # NoSession /\ sess = NoSession
                             THEN delete(sessionFile) ELSE sessionFile
           /\ tempFile' = IF sessionFile # NoSession /\ sess = NoSession
                          THEN delete(tempFile) ELSE tempFile
           /\ is_resuming' = (sess # NoSession)
           /\ session' = IF sess # NoSession THEN sess ELSE NewSession("root", fresh)
           /\ downloaded' = IF sess # NoSession THEN sess.downloaded_count ELSE 0
           /\ cached' = IF sess # NoSession THEN sess.cached_count ELSE 0
           /\ existing' = IF sess # NoSession THEN sess.existing_count ELSE Len(with_lrc)
           /\ failed' = IF sess # NoSession THEN sess.failed_count ELSE 0
           /\ Send((IF sess # NoSession
                    THEN <<Msg("SessionRestoring", NoItem), CountsRestored(sess)>>
                         \o LogRestoreMsgs(sess.log_history)
                    ELSE <<Msg("ScanProgress", NoItem)>> \o AlreadyHasLrcMsgs(with_lrc))
                   \o <<Msg("ScanStarted", NoItem)>>)
           /\ work_queue' = todo
           /\ files_to_process' = todo
           /\ paused' = (sess # NoSession)
    /\ should_quit' = FALSE
    /\ workers' = [w \in {Spawned} |-> MAX_CONCURRENT_WORKERS + 1]
    /\ coordPc' = "recv"
    /\ mainPc' = "join"
    /\ UNCHANGED <<lrcFiles, cacheDb, dir, run, ui_rx, keys,
                   popped, outcome, statVars, prevRun, probe>>

\* a start-up that leaves the pause flag clear in a resumed run too
StartupUnpaused ==
    /\ mainPc = "start"
    /\ LET sess == LoadedSession
           all_audio_files == walk_directory_parallel
           with_lrc == SelectSeq(all_audio_files, has_lrc_sidecar)
           fresh == SelectSeq(all_audio_files, LAMBDA f : ~has_lrc_sidecar(f))
           todo == IF sess # NoSession THEN sess.pending_files ELSE fresh
       IN  /\ sessionFile' = IF sessionFile # NoSession /\ sess = NoSession
                             THEN delete(sessionFile) ELSE sessionFile
           /\ tempFile' = IF sessionFile # NoSession /\ sess = NoSession
                          THEN delete(tempFile) ELSE tempFile
           /\ is_resuming' = (sess # NoSession)
           /\ session' = IF sess # NoSession THEN sess ELSE NewSession("root", fresh)
           /\ downloaded' = IF sess # NoSession THEN sess.downloaded_count ELSE 0
           /\ cached' = IF sess # NoSession THEN sess.cached_count ELSE 0
           /\ existing' = IF sess # NoSession THEN sess.existing_count ELSE Len(with_lrc)
           /\ failed' = IF sess # NoSession THEN sess.failed_count ELSE 0
           /\ Send((IF sess # NoSession
                    THEN <<Msg("SessionRestoring", NoItem), CountsRestored(sess)>>
                         \o LogRestoreMsgs(sess.log_history)
                    ELSE <<Msg("ScanProgress", NoItem)>> \o AlreadyHasLrcMsgs(with_lrc))
                   \o <<Msg("ScanStarted", NoItem)>>)
           /\ work_queue' = todo
           /\ files_to_process' = todo
           /\ paused' = FALSE
    /\ should_quit' = FALSE
    /\ workers' = [w \in {Spawned} |-> MAX_CONCURRENT_WORKERS]
    /\ coordPc' = "recv"
    /\ mainPc' = "join"
    /\ UNCHANGED <<lrcFiles, cacheDb, dir, run, ui_rx, keys,
                   popped, outcome, statVars, prevRun, probe>>

\* worker::run up to the spawn of the coordinator and the worker tasks
Startup ==
    /\ mainPc = "start"
    /\ LET sess == LoadedSession
           all_audio_files == walk_directory_parallel
           with_lrc == SelectSeq(all_audio_files, has_lrc_sidecar)
           fresh == SelectSeq(all_audio_files, LAMBDA f : ~has_lrc_sidecar(f))
           todo == IF sess # NoSession THEN sess.pending_files ELSE fresh
       IN  /\ sessionFile' = IF sessionFile # NoSession /\ sess = NoSession
                             THEN delete(sessionFile) ELSE sessionFile
           /\ tempFile' = IF sessionFile # NoSession /\ sess = NoSession
                          THEN delete(tempFile) ELSE tempFile
           /\ is_resuming' = (sess # NoSession)
           /\ session' = IF sess # NoSession THEN sess ELSE NewSession("root", fresh)
           /\ downloaded' = IF sess # NoSession THEN sess.downloaded_count ELSE 0
           /\ cached' = IF sess # NoSession THEN sess.cached_count ELSE 0
           /\ existing' = IF sess # NoSession THEN sess.existing_count ELSE Len(with_lrc)
           /\ failed' = IF sess # NoSession THEN sess.failed_count ELSE 0
           /\ Send((IF sess # NoSession
                    THEN <<Msg("SessionRestoring", NoItem), CountsRestored(sess)>>
                         \o LogRestoreMsgs(sess.log_history)
                    ELSE <<Msg("ScanProgress", NoItem)>> \o AlreadyHasLrcMsgs(with_lrc))
                   \o <<Msg("ScanStarted", NoItem)>>)
           /\ work_queue' = todo
           /\ files_to_process' = todo
           /\ paused' = (sess # NoSession)
    /\ should_quit' = FALSE
    /\ workers' = [w \in {Spawned} |-> MAX_CONCURRENT_WORKERS]
    /\ coordPc' = "recv"
    /\ mainPc' = "join"
    /\ UNCHANGED <<lrcFiles, cacheDb, dir, run, ui_rx, keys,
                   popped, outcome, statVars, prevRun, probe>>

\* ------------------------------------------------------------------------
\* Coordinator: the control message handler task of worker::run
\* ------------------------------------------------------------------------
\* sess.pending_files = remaining_files; sess.save(path)
Checkpoint ==
    /\ session' = [session EXCEPT !.pending_files = work_queue]
    /\ sessionFile' = save(session')
    /\ tempFile' = NoSession

\* UiMessage::Pause: the flag is set
CoordPause ==
    /\ coordPc = "recv"
    /\ ui_rx # <<>> /\ Head(ui_rx) = "Pause"
    /\ ui_rx' = Tail(ui_rx)
    /\ paused' = TRUE
    /\ coordPc' = "pause_save"
    /\ UNCHANGED <<diskVars, run, mainPc, is_resuming, session, countVars, existing,
                   work_queue, should_quit, workers, tx, app, keys,
                   files_to_process, popped, outcome, statVars, prevRun, probe>>

\* UiMessage::Pause: the session lock is taken, the queue copied, the session saved
CoordPauseSave ==
    /\ coordPc = "pause_save"
    /\ Checkpoint
    /\ coordPc' = "recv"
    /\ UNCHANGED <<lrcFiles, cacheDb, dir, run, mainPc, is_resuming, countVars,
                   existing, work_queue, flagVars, workers, ui_rx, tx, app, keys,
                   files_to_process, popped, outcome, statVars, prevRun, probe>>

\* UiMessage::Resume
CoordResume ==
    /\ coordPc = "recv"
    /\ ui_rx # <<>> /\ Head(ui_rx) = "Resume"
    /\ ui_rx' = Tail(ui_rx)
    /\ paused' = FALSE
    /\ UNCHANGED <<diskVars, run, mainPc, is_resuming, session, countVars, existing,
                   work_queue, should_quit, workers, coordPc, tx, app, keys,
                   files_to_process, popped, outcome, statVars, prevRun, probe>>

\* UiMessage::Quit: the flag is set
CoordQuit ==
    /\ coordPc = "recv"
    /\ ui_rx # <<>> /\ Head(ui_rx) = "Quit"
    /\ ui_rx' = Tail(ui_rx)
    /\ should_quit' = TRUE
    /\ coordPc' = "quit_save"
    /\ UNCHANGED <<diskVars, run, mainPc, is_resuming, session, countVars, existing,
                   work_queue, paused, workers, tx, app, keys,
                   files_to_process, popped, outcome, statVars, prevRun, probe>>

\* a Quit handler that breaks without the checkpoint
CoordQuitSaveNoCheckpoint ==
    /\ coordPc = "quit_save"
    /\ coordPc' = "stopped"
    /\ UNCHANGED <<diskVars, run, mainPc, is_resuming, session, countVars,
                   existing, work_queue, flagVars, workers, ui_rx, tx, app, keys,
                   files_to_process, popped, outcome, statVars, prevRun, probe>>

\* a Quit handler that checkpoints whether paused or not
CoordQuitSaveAlways ==
    /\ coordPc = "quit_save"
    /\ Checkpoint
    /\ coordPc' = "stopped"
    /\ UNCHANGED <<lrcFiles, cacheDb, dir, run, mainPc, is_resuming, countVars,
                   existing, work_queue, flagVars, workers, ui_rx, tx, app, keys,
                   files_to_process, popped, outcome, statVars, prevRun, probe>>

\* UiMessage::Quit: save the session if paused, then break
CoordQuitSave ==
    /\ coordPc = "quit_save"
    /\ IF paused THEN Checkpoint ELSE UNCHANGED <<session, sessionFile, tempFile>>
    /\ coordPc' = "stopped"
    /\ UNCHANGED <<lrcFiles, cacheDb, dir, run, mainPc, is_resuming, countVars,
                   existing, work_queue, flagVars, workers, ui_rx, tx, app, keys,
                   files_to_process, popped, outcome, statVars, prevRun, probe>>

\* ------------------------------------------------------------------------
\* Search strategy: api/mod.rs
\* ------------------------------------------------------------------------
\* what the catalog answers to one request: the status, the similarity of the
\* candidate's artist and title to the query (hundredths), whether the
\* candidate has a synced body
SimValues == {50, 70, 100}

Responses ==
    [status : {"OK"}, artist_sim : SimValues, title_sim : SimValues, synced : BOOLEAN]
    \cup [status : {"NOT_FOUND", "OTHER"}, artist_sim : {0}, title_sim : {0}, synced : {FALSE}]

NoResponse == [status |-> "NONE", artist_sim |-> 0, title_sim |-> 0, synced |-> FALSE]

\* a classification that wants more than the automatic threshold for Found
search_with_fuzzy_above(resp) ==
    IF resp.status = "OK"
    THEN IF resp.artist_sim + resp.title_sim > 2 * SIMILARITY_THRESHOLD_AUTO
         THEN "Found"
         ELSE IF resp.artist_sim + resp.title_sim >= 2 * SIMILARITY_THRESHOLD_POTENTIAL
         THEN "PotentialMatch"
         ELSE "NotFound"
    ELSE IF resp.status = "NOT_FOUND" THEN "NotFound"
    ELSE "Err"

\* a classification that takes every status but success for not found
search_with_fuzzy_no_error(resp) ==
    IF resp.status = "OK"
    THEN IF resp.artist_sim + resp.title_sim >= 2 * SIMILARITY_THRESHOLD_AUTO
         THEN "Found"
         ELSE IF resp.artist_sim + resp.title_sim >= 2 * SIMILARITY_THRESHOLD_POTENTIAL
         THEN "PotentialMatch"
         ELSE "NotFound"
    ELSE "NotFound"

\* search_with_fuzzy: avg_similarity = (artist_similarity + title_similarity) / 2.0
search_with_fuzzy(resp) ==
    IF resp.status = "OK"
    THEN IF resp.artist_sim + resp.title_sim >= 2 * SIMILARITY_THRESHOLD_AUTO
         THEN "Found"
         ELSE IF resp.artist_sim + resp.title_sim >= 2 * SIMILARITY_THRESHOLD_POTENTIAL
         THEN "PotentialMatch"
         ELSE "NotFound"
    ELSE IF resp.status = "NOT_FOUND" THEN "NotFound"
    ELSE "Err"

\* get_lyrics_smart makes attempt 2 for this track after a NotFound
TriesStripped(track) ==
    LET normalized == normalize_metadata(track.artist, track.title, track.album)
    IN  get_stripped_title(normalized) # normalized.title

\* per audio file: the signature hash of its tags, and whether a search for it
\* goes on to attempt 2
SigHashOf == [f \in Files |-> generate_hash(TrackSignature(TagsOf(f)))]

StrippedFiles == {f \in Files : TriesStripped(TagsOf(f))}

\* the answers the catalog can give to attempt 2 for file f
SecondResponses(f) == IF f \in StrippedFiles THEN Responses ELSE {NoResponse}

\* a search that goes on to the stripped level unless attempt 1 is Found
get_lyrics_smart_second_unless_found(f, resp1, resp2) ==
    LET r1 == search_with_fuzzy(resp1)
    IN  IF r1 # "Found"
        THEN [result |-> search_with_fuzzy(resp2), lyrics |-> resp2, requests |-> 2]
        ELSE [result |-> r1, lyrics |-> resp1, requests |-> 1]

\* a search that makes attempt 2 after a NotFound whatever the stripped title
get_lyrics_smart_always_second(f, resp1, resp2) ==
    LET r1 == search_with_fuzzy(resp1)
    IN  IF r1 = "NotFound"
        THEN [result |-> search_with_fuzzy(resp2), lyrics |-> resp2, requests |-> 2]
        ELSE [result |-> r1, lyrics |-> resp1, requests |-> 1]

\* get_lyrics_smart: the outcome, the answer it rests on, the requests made
get_lyrics_smart(f, resp1, resp2) ==
    LET r1 == search_with_fuzzy(resp1)
    IN  IF r1 = "NotFound" /\ f \in StrippedFiles
        THEN [result |-> search_with_fuzzy(resp2), lyrics |-> resp2, requests |-> 2]
        ELSE [result |-> r1, lyrics |-> resp1, requests |-> 1]

\* a get_lyrics that takes only Found for a match
get_lyrics_potential_is_none(f, resp1, resp2) ==
    LET s == get_lyrics_smart(f, resp1, resp2)
    IN  [s EXCEPT !.result = IF @ = "Found" THEN "Some"
                             ELSE IF @ \in {"NotFound", "PotentialMatch"} THEN "None"
                             ELSE "Err"]

\* get_lyrics: Ok(Some(lyrics)), Ok(None) or Err
get_lyrics(f, resp1, resp2) ==
    LET s == get_lyrics_smart(f, resp1, resp2)
    IN  [s EXCEPT !.result = IF @ \in {"Found", "PotentialMatch"} THEN "Some"
                             ELSE IF @ = "NotFound" THEN "None" ELSE "Err"]

\* ------------------------------------------------------------------------
\* Workers: the loop of a worker task and process_file
\* ------------------------------------------------------------------------
Replace(w, w2) == (workers (-) SetToBag({w})) (+) SetToBag({w2})

At(w, pc) == [w EXCEPT !.pc = pc]

\* the number of worker tasks of the bag ws that hold item f
Holders(ws, f) ==
    BagCardinality([w \in {x \in BagToSet(ws) : x.item = f} |-> CopiesIn(w, ws)])

\* worker tasks between their first poll and their exit
Active == BagCardinality(workers) - CopiesIn(Spawned, workers) - CopiesIn(Exited, workers)

\* tokio::spawn: the task is polled for the first time, while fewer than
\* limit tasks are active
WorkerStart(w, limit) ==
    /\ w.pc = "spawned"
    /\ Active < limit
    /\ workers' = Replace(w, Looping)
    /\ UNCHANGED <<diskVars, run, mainPc, is_resuming, session, countVars, existing,
                   work_queue, flagVars, coordPc, ui_rx, tx, app, keys,
                   files_to_process, popped, outcome, statVars, prevRun, probe>>

\* if *should_quit.lock().await { break }
WorkerCheckQuit(w) ==
    /\ w.pc = "loop"
    /\ workers' = Replace(w, IF should_quit THEN Exited ELSE At(w, "pause_wait"))
    /\ UNCHANGED <<diskVars, run, mainPc, is_resuming, session, countVars, existing,
                   work_queue, flagVars, coordPc, ui_rx, tx, app, keys,
                   files_to_process, popped, outcome, statVars, prevRun, probe>>

\* while *paused.lock().await
WorkerPauseWait(w) ==
    /\ w.pc = "pause_wait"
    /\ workers' = Replace(w, IF paused THEN At(w, "sleep") ELSE At(w, "pop"))
    /\ UNCHANGED <<diskVars, run, mainPc, is_resuming, session, countVars, existing,
                   work_queue, flagVars, coordPc, ui_rx, tx, app, keys,
                   files_to_process, popped, outcome, statVars, prevRun, probe>>

\* a pause wait that does not look at the quit flag
WorkerSleepIgnoresQuit(w) ==
    /\ w.pc = "sleep"
    /\ workers' = Replace(w, At(w, "pause_wait"))
    /\ UNCHANGED <<diskVars, run, mainPc, is_resuming, session, countVars, existing,
                   work_queue, flagVars, coordPc, ui_rx, tx, app, keys,
                   files_to_process, popped, outcome, statVars, prevRun, probe>>

\* sleep(100ms); if *should_quit.lock().await { return }
WorkerSleep(w) ==
    /\ w.pc = "sleep"
    /\ workers' = Replace(w, IF should_quit THEN Exited ELSE At(w, "pause_wait"))
    /\ UNCHANGED <<diskVars, run, mainPc, is_resuming, session, countVars, existing,
                   work_queue, flagVars, coordPc, ui_rx, tx, app, keys,
                   files_to_process, popped, outcome, statVars, prevRun, probe>>

\* a pop that hands out the front item and leaves it in the queue
pop_keep(q) == [item |-> Head(q), rest |-> q]

\* a pop from the back of the queue
pop_back(q) == [item |-> q[Len(q)], rest |-> SubSeq(q, 1, Len(q) - 1)]

\* VecDeque::pop_front: the item taken and the rest
pop_front(q) == [item |-> Head(q), rest |-> Tail(q)]

\* queue.pop_front(); None ends the worker
WorkerPop(w) ==
    /\ w.pc = "pop"
    /\ IF work_queue = <<>>
       THEN /\ workers' = Replace(w, Exited)
            /\ UNCHANGED <<work_queue, popped>>
       ELSE /\ workers' = Replace(w, [pc |-> "process", item |-> pop_front(work_queue).item])
            /\ work_queue' = pop_front(work_queue).rest
            /\ popped' = Append(popped, pop_front(work_queue).item)
    /\ UNCHANGED <<diskVars, run, mainPc, is_resuming, session, countVars, existing,
                   flagVars, coordPc, ui_rx, tx, app, keys,
                   files_to_process, outcome, statVars, prevRun, probe>>

\* ends of process_file where an error is reported but not counted
OutcomesErrorUncounted ==
    [ error |-> [msg |-> "Error", counter |-> "none", status |-> "Error"],
      cached |-> [msg |-> "CacheHit", counter |-> "cached", status |-> "Cached"],
      downloaded |-> [msg |-> "LyricsFound", counter |-> "downloaded", status |-> "Downloaded"],
      notfound |-> [msg |-> "LyricsNotFound", counter |-> "failed", status |-> "NotFound"] ]

\* the ends of process_file: the status message, the counter, the log entry
Outcomes ==
    [ error |-> [msg |-> "Error", counter |-> "failed", status |-> "Error"],
      cached |-> [msg |-> "CacheHit", counter |-> "cached", status |-> "Cached"],
      downloaded |-> [msg |-> "LyricsFound", counter |-> "downloaded", status |-> "Downloaded"],
      notfound |-> [msg |-> "LyricsNotFound", counter |-> "failed", status |-> "NotFound"] ]

\* tx.send(..); *counter.lock().await += 1; session.lock().await.add_log(..)
Finish(f, o, msgs) ==
    /\ Send(msgs \o <<Msg(Outcomes[o].msg, f)>>)
    /\ downloaded' = downloaded + (IF Outcomes[o].counter = "downloaded" THEN 1 ELSE 0)
    /\ cached' = cached + (IF Outcomes[o].counter = "cached" THEN 1 ELSE 0)
    /\ failed' = failed + (IF Outcomes[o].counter = "failed" THEN 1 ELSE 0)
    /\ session' = add_log(session, f, Outcomes[o].status)
    /\ outcome' = [outcome EXCEPT ![f] = o]

\* process_file returns Err through `?` on a cache (SQLite) error: the worker
\* logs it and goes on
Abort(f, msgs) ==
    /\ Send(msgs)
    /\ outcome' = [outcome EXCEPT ![f] = "aborted"]
    /\ UNCHANGED <<session, countVars>>

is_cached(sig_hash) == sig_hash \in cacheDb

\* a process_file that goes to the catalog without asking the negative cache
WorkerBeginNoLookup(w, extract_ok, cache_ok) ==
    /\ w.pc = "process"
    /\ w.item \notin dir => ~extract_ok
    /\ IF ~extract_ok
       THEN /\ Finish(w.item, "error", <<>>)
            /\ workers' = Replace(w, Looping)
       ELSE /\ Send(<<Msg("TrackProcessing", w.item)>>)
            /\ workers' = Replace(w, At(w, "fetch"))
            /\ UNCHANGED <<session, countVars, outcome>>
    /\ UNCHANGED <<diskVars, run, mainPc, is_resuming, existing, work_queue,
                   flagVars, coordPc, ui_rx, keys,
                   files_to_process, popped, statVars, prevRun, probe>>

\* a process_file that waits on the rate limiter before the cache lookup
WorkerBeginWaitsFirst(w, extract_ok, cache_ok) ==
    /\ w.pc = "process"
    /\ w.item \notin dir => ~extract_ok
    /\ LET f == w.item
           sig_hash == SigHashOf[f]
       IN  IF ~extract_ok
           THEN /\ Finish(f, "error", <<>>)
                /\ workers' = Replace(w, Looping)
                /\ UNCHANGED <<lookups, rlWaits>>
           ELSE /\ lookups' = [lookups EXCEPT ![f] = @ + 1]
                /\ rlWaits' = [rlWaits EXCEPT ![f] = @ + 1]
                /\ IF ~cache_ok
                   THEN /\ Abort(f, <<Msg("TrackProcessing", f)>>)
                        /\ workers' = Replace(w, Looping)
                   ELSE IF is_cached(sig_hash)
                   THEN /\ Finish(f, "cached", <<Msg("TrackProcessing", f)>>)
                        /\ workers' = Replace(w, Looping)
                   ELSE /\ Send(<<Msg("TrackProcessing", f)>>)
                        /\ workers' = Replace(w, At(w, "fetch"))
                        /\ UNCHANGED <<session, countVars, outcome>>
    /\ UNCHANGED <<diskVars, run, mainPc, is_resuming, existing, work_queue,
                   flagVars, coordPc, ui_rx, keys,
                   files_to_process, popped, queries, prevRun, probe>>

\* process_file: metadata::extract, the signature, the negative cache lookup
WorkerBegin(w, extract_ok, cache_ok) ==
    /\ w.pc = "process"
    /\ w.item \notin dir => ~extract_ok
    /\ LET f == w.item
           sig_hash == SigHashOf[f]
       IN  IF ~extract_ok
           THEN /\ Finish(f, "error", <<>>)
                /\ workers' = Replace(w, Looping)
                /\ UNCHANGED lookups
           ELSE /\ lookups' = [lookups EXCEPT ![f] = @ + 1]
                /\ IF ~cache_ok
                   THEN /\ Abort(f, <<Msg("TrackProcessing", f)>>)
                        /\ workers' = Replace(w, Looping)
                   ELSE IF is_cached(sig_hash)
                   THEN /\ Finish(f, "cached", <<Msg("TrackProcessing", f)>>)
                        /\ workers' = Replace(w, Looping)
                   ELSE /\ Send(<<Msg("TrackProcessing", f)>>)
                        /\ workers' = Replace(w, At(w, "fetch"))
                        /\ UNCHANGED <<session, countVars, outcome>>
    /\ UNCHANGED <<diskVars, run, mainPc, is_resuming, existing, work_queue,
                   flagVars, coordPc, ui_rx, keys,
                   files_to_process, popped, rlWaits, queries, prevRun, probe>>

\* a process_file that also caches the fingerprint of a downloaded item
WorkerFetchCachesDownload(w, resp1, resp2, write_ok, cache_ok) ==
    /\ w.pc = "fetch"
    /\ LET f == w.item
           sig_hash == SigHashOf[f]
           got == get_lyrics(f, resp1, resp2)
       IN  /\ rlWaits' = [rlWaits EXCEPT ![f] = @ + 1]
           /\ queries' = [queries EXCEPT ![f] = @ + got.requests]
           /\ workers' = Replace(w, Looping)
           /\ IF got.result = "Some" /\ got.lyrics.synced
              THEN IF write_ok
                   THEN /\ Finish(f, "downloaded", <<>>)
                        /\ lrcFiles' = lrcFiles \cup {f}
                        /\ cacheDb' = cacheDb \cup {sig_hash}
                   ELSE /\ Finish(f, "error", <<>>)
                        /\ UNCHANGED <<lrcFiles, cacheDb>>
              ELSE IF got.result = "Err"
                   THEN /\ Finish(f, "error", <<>>)
                        /\ UNCHANGED <<lrcFiles, cacheDb>>
                   ELSE IF cache_ok
                        THEN /\ cacheDb' = cacheDb \cup {sig_hash}
                             /\ Finish(f, "notfound", <<>>)
                             /\ UNCHANGED lrcFiles
                        ELSE /\ Abort(f, <<>>)
                             /\ UNCHANGED <<lrcFiles, cacheDb>>
    /\ UNCHANGED <<sessionFile, tempFile, dir, run, mainPc, is_resuming, existing, work_queue,
                   flagVars, coordPc, ui_rx, keys,
                   files_to_process, popped, lookups, prevRun, probe>>

\* a process_file that reports a match without a synced body as an error
WorkerFetchUnsyncedIsError(w, resp1, resp2, write_ok, cache_ok) ==
    /\ w.pc = "fetch"
    /\ LET f == w.item
           sig_hash == SigHashOf[f]
           got == get_lyrics(f, resp1, resp2)
       IN  /\ rlWaits' = [rlWaits EXCEPT ![f] = @ + 1]
           /\ queries' = [queries EXCEPT ![f] = @ + got.requests]
           /\ workers' = Replace(w, Looping)
           /\ IF got.result = "Some" /\ got.lyrics.synced
              THEN IF write_ok
                   THEN /\ Finish(f, "downloaded", <<>>)
                        /\ lrcFiles' = lrcFiles \cup {f}
                        /\ UNCHANGED cacheDb
                   ELSE /\ Finish(f, "error", <<>>)
                        /\ UNCHANGED <<lrcFiles, cacheDb>>
              ELSE IF got.result = "Err" \/ got.result = "Some"
                   THEN /\ Finish(f, "error", <<>>)
                        /\ UNCHANGED <<lrcFiles, cacheDb>>
                   ELSE IF cache_ok
                        THEN /\ cacheDb' = cacheDb \cup {sig_hash}
                             /\ Finish(f, "notfound", <<>>)
                             /\ UNCHANGED lrcFiles
                        ELSE /\ Abort(f, <<>>)
                             /\ UNCHANGED <<lrcFiles, cacheDb>>
    /\ UNCHANGED <<sessionFile, tempFile, dir, run, mainPc, is_resuming, existing, work_queue,
                   flagVars, coordPc, ui_rx, keys,
                   files_to_process, popped, lookups, prevRun, probe>>

\* process_file: rate_limiter.until_ready().await; client.get_lyrics(&track).await
\* and the match on its result
WorkerFetch(w, resp1, resp2, write_ok, cache_ok) ==
    /\ w.pc = "fetch"
    /\ LET f == w.item
           sig_hash == SigHashOf[f]
           got == get_lyrics(f, resp1, resp2)
       IN  /\ rlWaits' = [rlWaits EXCEPT ![f] = @ + 1]
           /\ queries' = [queries EXCEPT ![f] = @ + got.requests]
           /\ workers' = Replace(w, Looping)
           /\ IF got.result = "Some" /\ got.lyrics.synced
              THEN IF write_ok
                   THEN /\ Finish(f, "downloaded", <<>>)
                        /\ lrcFiles' = lrcFiles \cup {f}
                        /\ UNCHANGED cacheDb
                   ELSE /\ Finish(f, "error", <<>>)
                        /\ UNCHANGED <<lrcFiles, cacheDb>>
              ELSE IF got.result = "Err"
                   THEN /\ Finish(f, "error", <<>>)
                        /\ UNCHANGED <<lrcFiles, cacheDb>>
                   ELSE IF cache_ok
                        THEN /\ cacheDb' = cacheDb \cup {sig_hash}
                             /\ Finish(f, "notfound", <<>>)
                             /\ UNCHANGED lrcFiles
                        ELSE /\ Abort(f, <<>>)
                             /\ UNCHANGED <<lrcFiles, cacheDb>>
    /\ UNCHANGED <<sessionFile, tempFile, dir, run, mainPc, is_resuming, existing, work_queue,
                   flagVars, coordPc, ui_rx, keys,
                   files_to_process, popped, lookups, prevRun, probe>>

\* ------------------------------------------------------------------------
\* worker::run after the spawns: join the workers, then complete or return
\* ------------------------------------------------------------------------
AllExited == BagToSet(workers) \subseteq {Exited}

\* for handle in worker_handles { handle.await }; if *should_quit.lock().await { return }
MainJoin ==
    /\ mainPc = "join"
    /\ AllExited
    /\ mainPc' = IF should_quit THEN "quit_return" ELSE "complete"
    /\ UNCHANGED <<diskVars, run, is_resuming, session, countVars, existing, work_queue,
                   flagVars, workers, coordPc, ui_rx, tx, app, keys,
                   files_to_process, popped, outcome, statVars, prevRun, probe>>

\* a completion that leaves the session file in place
MainCompleteKeepsFile ==
    /\ mainPc = "complete"
    /\ Send(<<Msg("ScanComplete", NoItem)>>)
    /\ mainPc' = "done"
    /\ UNCHANGED <<diskVars, run, is_resuming, session, countVars,
                   existing, work_queue, flagVars, workers, coordPc, ui_rx, keys,
                   files_to_process, popped, outcome, statVars, prevRun, probe>>

\* tx.send(ScanComplete); PersistentSession::delete(&session_path)
MainComplete ==
    /\ mainPc = "complete"
    /\ Send(<<Msg("ScanComplete", NoItem)>>)
    /\ sessionFile' = delete(sessionFile)
    /\ tempFile' = delete(tempFile)
    /\ mainPc' = "done"
    /\ UNCHANGED <<lrcFiles, cacheDb, dir, run, is_resuming, session, countVars,
                   existing, work_queue, flagVars, workers, coordPc, ui_rx, keys,
                   files_to_process, popped, outcome, statVars, prevRun, probe>>

\* ------------------------------------------------------------------------
\* The process ends (main returns once the front end loop and worker::run
\* are over; the coordinator is not inside a handler) and is started again.
\* Files may have been removed from the directory in between.
\* ------------------------------------------------------------------------
Restart(left) ==
    /\ run < MaxRuns
    /\ mainPc \in {"quit_return", "done"}
    /\ app.should_quit
    /\ coordPc \in {"recv", "stopped"}
    /\ run' = run + 1
    /\ dir' = left
    /\ prevRun' = [ downloaded |-> {f \in Files : outcome[f] = "downloaded"},
                    pausedQuit |-> (coordPc = "stopped" /\ paused) ]
    /\ mainPc' = "start"
    /\ is_resuming' = FALSE
    /\ session' = NoSession
    /\ downloaded' = 0 /\ cached' = 0 /\ failed' = 0 /\ existing' = 0
    /\ work_queue' = <<>>
    /\ paused' = FALSE /\ should_quit' = FALSE
    /\ workers' = EmptyBag
    /\ coordPc' = "unspawned"
    /\ ui_rx' = <<>>
    /\ tx' = <<>>
    /\ app' = NewAppState
    /\ files_to_process' = <<>>
    /\ popped' = <<>>
    /\ outcome' = [f \in Files |-> "none"]
    /\ lookups' = Zero /\ rlWaits' = Zero /\ queries' = Zero
    /\ UNCHANGED <<sessionFile, tempFile, lrcFiles, cacheDb, keys, probe>>

\* ------------------------------------------------------------------------
\* Spec: runs that the user pauses, resumes and quits, and restarts.  No I/O
\* fault happens (tags are read, SQLite and the artifact write succeed, the
\* catalog answers 200 or 404) and MaxActive bounds the worker tasks active
\* at a time.
\* ------------------------------------------------------------------------
BenignResponses == {r \in Responses : r.status # "OTHER"}

Next ==
    \/ Startup
    \/ UiKeyPause
    \/ UiKeyResume
    \/ UiKeyQuit
    \/ CoordPause
    \/ CoordPauseSave
    \/ CoordResume
    \/ CoordQuit
    \/ CoordQuitSave
    \/ \E w \in BagToSet(workers) : WorkerStart(w, MaxActive)
    \/ \E w \in BagToSet(workers) : WorkerCheckQuit(w)
    \/ \E w \in BagToSet(workers) : WorkerPauseWait(w)
    \/ \E w \in BagToSet(workers) : WorkerSleep(w)
    \/ \E w \in BagToSet(workers) : WorkerPop(w)
    \/ \E w \in BagToSet(workers) : WorkerBegin(w, w.item \in dir, TRUE)
    \/ \E w \in {x \in BagToSet(workers) : x.pc = "fetch"} : \E resp1 \in BenignResponses :
         \E resp2 \in SecondResponses(w.item) : WorkerFetch(w, resp1, resp2, TRUE, TRUE)
    \/ MainJoin
    \/ MainComplete
    \/ \E left \in DirChoices : Restart(left)

Spec == Init /\ [][Next]_vars

\* ------------------------------------------------------------------------
\* SpecRun: one run on TwinDir that the user leaves alone, with every I/O
\* fault (unreadable tags, SQLite errors, a failing artifact write, an
\* unexpected catalog status).
\* ------------------------------------------------------------------------
InitRun ==
    /\ sessionFile = NoSession
    /\ tempFile = NoSession
    /\ probe = NoProbe
    /\ lrcFiles = {}
    /\ cacheDb = {}
    /\ dir = TwinDir
    /\ run = 1
    /\ mainPc = "start"
    /\ is_resuming = FALSE
    /\ session = NoSession
    /\ downloaded = 0 /\ cached = 0 /\ failed = 0 /\ existing = 0
    /\ work_queue = <<>>
    /\ paused = FALSE /\ should_quit = FALSE
    /\ workers = EmptyBag
    /\ coordPc = "unspawned"
    /\ ui_rx = <<>>
    /\ tx = <<>>
    /\ app = NewAppState
    /\ keys = 0
    /\ files_to_process = <<>>
    /\ popped = <<>>
    /\ outcome = [f \in Files |-> "none"]
    /\ lookups = Zero /\ rlWaits = Zero /\ queries = Zero
    /\ prevRun = [downloaded |-> {}, pausedQuit |-> FALSE]

NextRun ==
    \/ Startup
    \/ \E w \in BagToSet(workers) : WorkerStart(w, MaxActive)
    \/ \E w \in BagToSet(workers) : WorkerCheckQuit(w)
    \/ \E w \in BagToSet(workers) : WorkerPauseWait(w)
    \/ \E w \in BagToSet(workers) : WorkerPop(w)
    \/ \E w \in BagToSet(workers) : \E extract_ok, cache_ok \in BOOLEAN :
           WorkerBegin(w, extract_ok, cache_ok)
    \/ \E w \in {x \in BagToSet(workers) : x.pc = "fetch"} : \E resp1 \in Responses :
         \E resp2 \in SecondResponses(w.item) : \E write_ok, cache_ok \in BOOLEAN :
           WorkerFetch(w, resp1, resp2, write_ok, cache_ok)
    \/ MainJoin
    \/ MainComplete

SpecRun == InitRun /\ [][NextRun]_vars

\* ------------------------------------------------------------------------
\* SpecUnsynced: the run of SpecRun against a catalog that answers every
\* request with a matching record (Found or PotentialMatch) that has no synced
\* lyric body.
\* ------------------------------------------------------------------------
UnsyncedMatches ==
    {r \in Responses : search_with_fuzzy(r) \in {"Found", "PotentialMatch"} /\ ~r.synced}

NextUnsynced ==
    \/ Startup
    \/ \E w \in BagToSet(workers) : WorkerStart(w, MaxActive)
    \/ \E w \in BagToSet(workers) : WorkerCheckQuit(w)
    \/ \E w \in BagToSet(workers) : WorkerPauseWait(w)
    \/ \E w \in BagToSet(workers) : WorkerPop(w)
    \/ \E w \in BagToSet(workers) : \E extract_ok, cache_ok \in BOOLEAN :
           WorkerBegin(w, extract_ok, cache_ok)
    \/ \E w \in {x \in BagToSet(workers) : x.pc = "fetch"} : \E resp1 \in UnsyncedMatches :
         \E resp2 \in SecondResponses(w.item) : \E write_ok, cache_ok \in BOOLEAN :
           WorkerFetch(w, resp1, resp2, write_ok, cache_ok)
    \/ MainJoin
    \/ MainComplete

SpecUnsynced == InitRun /\ [][NextUnsynced]_vars

\* ------------------------------------------------------------------------
\* SpecPool: one run on the whole directory (more items than worker tasks)
\* in which every spawned worker task may run at once.  The user leaves the
\* run alone and no I/O fault happens; the negative cache already holds the
\* song of f1 (five of the six items are copies of it) and the catalog has
\* synced lyrics for the other song.
\* ------------------------------------------------------------------------
InitPool ==
    /\ sessionFile = NoSession
    /\ tempFile = NoSession
    /\ probe = NoProbe
    /\ lrcFiles = {}
    /\ cacheDb = {SigHashOf["f1"]}
    /\ dir = Files
    /\ run = 1
    /\ mainPc = "start"
    /\ is_resuming = FALSE
    /\ session = NoSession
    /\ downloaded = 0 /\ cached = 0 /\ failed = 0 /\ existing = 0
    /\ work_queue = <<>>
    /\ paused = FALSE /\ should_quit = FALSE
    /\ workers = EmptyBag
    /\ coordPc = "unspawned"
    /\ ui_rx = <<>>
    /\ tx = <<>>
    /\ app = NewAppState
    /\ keys = 0
    /\ files_to_process = <<>>
    /\ popped = <<>>
    /\ outcome = [f \in Files |-> "none"]
    /\ lookups = Zero /\ rlWaits = Zero /\ queries = Zero
    /\ prevRun = [downloaded |-> {}, pausedQuit |-> FALSE]

SyncedFound ==
    {r \in Responses : search_with_fuzzy(r) = "Found" /\ r.synced}

NextPool ==
    \/ Startup
    \/ \E w \in BagToSet(workers) : WorkerStart(w, BagCardinality(workers))
    \/ \E w \in BagToSet(workers) : WorkerCheckQuit(w)
    \/ \E w \in BagToSet(workers) : WorkerPauseWait(w)
    \/ \E w \in BagToSet(workers) : WorkerPop(w)
    \/ \E w \in BagToSet(workers) : WorkerBegin(w, TRUE, TRUE)
    \/ \E w \in {x \in BagToSet(workers) : x.pc = "fetch"} : \E resp1 \in SyncedFound :
         \E resp2 \in SecondResponses(w.item) : WorkerFetch(w, resp1, resp2, TRUE, TRUE)
    \/ MainJoin
    \/ MainComplete

SpecPool == InitPool /\ [][NextPool]_vars

\* ------------------------------------------------------------------------
\* SpecSave: one call of PersistentSession::save, step by step, on a disk
\* that holds no session file or the file of an earlier save.  The process
\* may stop at any point and a write or the rename may fail; afterwards the
\* file at the final path is loaded.  The two files hold their text here.
\* ------------------------------------------------------------------------
\* no run of the program is under way
NoRunYet ==
    /\ lrcFiles = {}
    /\ cacheDb = {}
    /\ run = 1
    /\ mainPc = "start"
    /\ is_resuming = FALSE
    /\ downloaded = 0 /\ cached = 0 /\ failed = 0 /\ existing = 0
    /\ work_queue = <<>>
    /\ paused = FALSE /\ should_quit = FALSE
    /\ workers = EmptyBag
    /\ coordPc = "unspawned"
    /\ ui_rx = <<>>
    /\ tx = <<>>
    /\ app = NewAppState
    /\ keys = 0
    /\ files_to_process = <<>>
    /\ popped = <<>>
    /\ outcome = [f \in Files |-> "none"]
    /\ lookups = Zero /\ rlWaits = Zero /\ queries = Zero
    /\ prevRun = [downloaded |-> {}, pausedQuit |-> FALSE]

\* a save that has not started: previous is the session the file at the
\* final path was saved from
SaveProbe(previous) ==
    [ op |-> "save", pc |-> "idle", json |-> <<>>, written |-> 0, result |-> "none",
      previous |-> previous, loaded |-> [ok |-> FALSE] ]

\* sessions a run can hold when it saves
SaveInputs ==
    LET new == NewSession("root", <<"f1", "f2">>)
    IN  { new,
          [add_log(new, "f1", "Downloaded")
              EXCEPT !.pending_files = <<"f2">>, !.downloaded_count = 1],
          [add_log(add_log(new, "f1", "NotFound"), "f2", "Error")
              EXCEPT !.pending_files = <<>>, !.failed_count = 2],
          NewSession("root", <<"f1", "f\\xff">>) }

\* a temporary file a stopped save left behind
LeftTemp == File(<< Punct("{"), Key("root_path") >>)

InitSave ==
    /\ \E new \in SaveInputs :
       \E previous \in {NoSession} \cup {x \in SaveInputs : to_string_pretty(x).ok} :
       \E temp \in {NoSession, LeftTemp} :
         /\ session = new
         /\ sessionFile = IF previous = NoSession THEN NoSession
                          ELSE File(to_string_pretty(cap_log_history(previous)).text)
         /\ tempFile = temp
         /\ probe = SaveProbe(previous)
    /\ dir = SmallDir
    /\ NoRunYet

\* save up to the creation of the temporary file: the capped copy is
\* serialized and std::fs::write opens (creates or truncates) the file
SaveOpen ==
    /\ probe.op = "save" /\ probe.pc = "idle"
    /\ LET json == to_string_pretty(cap_log_history(session))
       IN  IF json.ok
           THEN /\ tempFile' = File(<<>>)
                /\ probe' = [probe EXCEPT !.pc = "writing", !.json = json.text]
           ELSE /\ probe' = [probe EXCEPT !.pc = "returned", !.result = "Err"]
                /\ UNCHANGED tempFile
    /\ UNCHANGED <<session, sessionFile, runVars>>

\* a version of the write that puts the text straight into the final path
SaveWriteInPlace(n) ==
    /\ probe.op = "save" /\ probe.pc = "writing"
    /\ probe.written < Len(probe.json)
    /\ LET upto == Min(probe.written + n, Len(probe.json))
       IN  /\ sessionFile' = File(SubSeq(probe.json, 1, upto))
           /\ probe' = [probe EXCEPT !.written = upto]
    /\ UNCHANGED <<session, tempFile, runVars>>

\* one write call of std::fs::write: the next n tokens (or what is left of
\* the text) reach the temporary file
SaveWrite(n) ==
    /\ probe.op = "save" /\ probe.pc = "writing"
    /\ probe.written < Len(probe.json)
    /\ LET upto == Min(probe.written + n, Len(probe.json))
       IN  /\ tempFile' = File(SubSeq(probe.json, 1, upto))
           /\ probe' = [probe EXCEPT !.written = upto]
    /\ UNCHANGED <<session, sessionFile, runVars>>

\* a write call fails: save returns the error, the temporary file stays
SaveWriteFails ==
    /\ probe.op = "save" /\ probe.pc = "writing"
    /\ probe.written < Len(probe.json)
    /\ probe' = [probe EXCEPT !.pc = "returned", !.result = "Err"]
    /\ UNCHANGED <<session, sessionFile, tempFile, runVars>>

\* std::fs::rename(&temp_path, path) after the whole text was written
SaveRename(rename_ok) ==
    /\ probe.op = "save" /\ probe.pc = "writing"
    /\ probe.written = Len(probe.json)
    /\ IF rename_ok
       THEN /\ sessionFile' = tempFile
            /\ tempFile' = NoSession
            /\ probe' = [probe EXCEPT !.pc = "returned", !.result = "Ok"]
       ELSE /\ probe' = [probe EXCEPT !.pc = "returned", !.result = "Err"]
            /\ UNCHANGED <<sessionFile, tempFile>>
    /\ UNCHANGED <<session, runVars>>

\* the process stops while save is under way
Stop ==
    /\ probe.op = "save" /\ probe.pc \in {"idle", "writing"}
    /\ probe' = [probe EXCEPT !.pc = "stopped"]
    /\ UNCHANGED <<session, sessionFile, tempFile, runVars>>

\* the next start loads the file at the final path
Load ==
    /\ probe.op = "save" /\ probe.pc \in {"returned", "stopped"}
    /\ probe' = [probe EXCEPT !.pc = "loaded", !.loaded = load(sessionFile)]
    /\ UNCHANGED <<session, sessionFile, tempFile, runVars>>

NextSave ==
    \/ SaveOpen
    \/ \E n \in {1, Len(probe.json)} : SaveWrite(n)
    \/ SaveWriteFails
    \/ \E rename_ok \in BOOLEAN : SaveRename(rename_ok)
    \/ Stop
    \/ Load

SpecSave == InitSave /\ [][NextSave]_vars

\* ------------------------------------------------------------------------
\* SpecRoundTrip: a session is saved to an empty disk without interruption
\* (each write call takes the whole text) and loaded back.  The logs drawn
\* reach up to MaxOver entries past MAX_LOG_HISTORY.
\* ------------------------------------------------------------------------
StatusSeq == <<"Downloaded", "Cached", "Existing", "NotFound", "Error">>

\* the log after n add_log calls on a session whose log has room for them
LongLog(n) ==
    [i \in 1..n |-> [filename |-> ToString(i), status |-> StatusSeq[(i % Len(StatusSeq)) + 1]]]

RoundTripInputs ==
    { [ root_path |-> "root", pending_files |-> p,
        downloaded_count |-> c[1], cached_count |-> c[2],
        existing_count |-> c[3], failed_count |-> c[4],
        log_history |-> LongLog(n) ] :
      p \in {<<>>, <<"f1">>, <<"f1", "f2">>, <<"f2", "f1">>},
      c \in {<<0, 0, 0, 0>>, <<1, 2, 3, MaxCount>>},
      n \in {0, 1} \cup ((MAX_LOG_HISTORY - 1)..(MAX_LOG_HISTORY + MaxOver)) }
    \cup {NewSession("f\\xff", <<"f1">>)}

InitRoundTrip ==
    /\ session \in RoundTripInputs
    /\ sessionFile = NoSession
    /\ tempFile = NoSession
    /\ probe = SaveProbe(NoSession)
    /\ dir = SmallDir
    /\ NoRunYet

NextRoundTrip ==
    \/ SaveOpen
    \/ SaveWrite(Len(probe.json))
    \/ SaveRename(TRUE)
    \/ Load

SpecRoundTrip == InitRoundTrip /\ [][NextRoundTrip]_vars

\* ------------------------------------------------------------------------
\* SpecLog: add_log calls on a new session, MaxAdds of them past the point
\* where the log is one entry short of MAX_LOG_HISTORY; the probe keeps
\* every entry added so far.  The status is free in those last calls.
\* ------------------------------------------------------------------------
InitLog ==
    /\ session = NewSession("root", <<"f1", "f2">>)
    /\ probe = [op |-> "add_log", added |-> <<>>]
    /\ sessionFile = NoSession
    /\ tempFile = NoSession
    /\ dir = SmallDir
    /\ NoRunYet

AddLog(filename, status) ==
    /\ probe.op = "add_log"
    /\ Len(probe.added) < MAX_LOG_HISTORY - 1 + MaxAdds
    /\ session' = add_log(session, filename, status)
    /\ probe' = [probe EXCEPT
                   !.added = Append(@, [filename |-> filename, status |-> status])]
    /\ UNCHANGED <<sessionFile, tempFile, runVars>>

\* the statuses the call after k calls may carry
StatusChoices(k) ==
    IF k < MAX_LOG_HISTORY - 1 THEN {StatusSeq[(k % Len(StatusSeq)) + 1]} ELSE StatusType

NextLog ==
    \E status \in StatusChoices(Len(probe.added)) :
        AddLog(ToString(Len(probe.added) + 1), status)

SpecLog == InitLog /\ [][NextLog]_vars

\* ------------------------------------------------------------------------
\* SpecIntegrity: check_integrity on a loaded session with up to MaxPending
\* pending files, any of which may be gone from the disk.
\* ------------------------------------------------------------------------
PendingPath == [i \in 1..MaxPending |-> ToString(i)]

InitIntegrity ==
    /\ \E n \in 0..MaxPending :
         /\ session = NewSession("root", [i \in 1..n |-> PendingPath[i]])
         /\ dir \in SUBSET {PendingPath[i] : i \in 1..n}
    /\ probe = [op |-> "check_integrity", called |-> FALSE, is_valid |-> FALSE]
    /\ sessionFile = NoSession
    /\ tempFile = NoSession
    /\ NoRunYet

CheckIntegrity ==
    /\ probe.op = "check_integrity"
    /\ ~probe.called
    /\ probe' = [probe EXCEPT !.called = TRUE, !.is_valid = check_integrity(session, dir)]
    /\ UNCHANGED <<session, sessionFile, tempFile, runVars>>

NextIntegrity == CheckIntegrity

SpecIntegrity == InitIntegrity /\ [][NextIntegrity]_vars

\* ------------------------------------------------------------------------
\* SpecStartup: one start-up on a disk that holds the session file of an
\* earlier run; any of the audio files may have left the directory since.
\* ------------------------------------------------------------------------
InitStartup ==
    /\ \E n \in 0..Len(AllAudioFiles) :
         sessionFile = save(NewSession("root", SubSeq(AllAudioFiles, 1, n)))
    /\ dir \in SUBSET Files
    /\ tempFile = NoSession
    /\ session = NoSession
    /\ probe = NoProbe
    /\ NoRunYet

NextStartup == Startup

SpecStartup == InitStartup /\ [][NextStartup]_vars

\* ------------------------------------------------------------------------
\* SpecCache: the negative cache store by itself.  The probe holds the rows
\* of the negative_cache table (signature is the primary key), whether the
\* table exists and whether a connection is open; cacheDb is the signature
\* column.  The store is opened, used and closed any number of times.
\* ------------------------------------------------------------------------
otherThanCache == <<sessionFile, tempFile, session, lrcFiles, dir, run, mainPc,
                    is_resuming, downloaded, cached, failed, existing, work_queue,
                    paused, should_quit, workers, coordPc, ui_rx, tx, app, keys,
                    files_to_process, popped, outcome, lookups, rlWaits, queries,
                    prevRun>>

\* fingerprints handed to the store
Fingerprints ==
    {SigHashOf[f] : f \in Files}
        \cup {generate_hash(TrackSignature(
                  [artist |-> <<>>, title |-> <<>>, album |-> <<>>, duration_secs |-> 0]))}

\* what SystemTime::now() may read, in seconds
Times == {0, 1}

InitCache ==
    /\ probe = [ op |-> "cache", conn |-> FALSE, schema |-> FALSE, rows |-> {},
                 reopened |-> FALSE, added |-> {}, lookup |-> [called |-> FALSE],
                 insert |-> [called |-> FALSE] ]
    /\ sessionFile = NoSession
    /\ tempFile = NoSession
    /\ session = NoSession
    /\ dir = SmallDir
    /\ NoRunYet

\* a plain INSERT: a row with the same primary key is a constraint error
insert_plain(rows, signature, timestamp) ==
    IF \E r \in rows : r.signature = signature
    THEN [ok |-> FALSE, rows |-> rows]
    ELSE [ok |-> TRUE,
          rows |-> rows \cup {[signature |-> signature, timestamp |-> timestamp]}]

\* INSERT OR REPLACE INTO negative_cache (signature, timestamp): a row with
\* the same primary key is deleted before the new one is inserted
insert_or_replace(rows, signature, timestamp) ==
    [ok |-> TRUE,
     rows |-> {r \in rows : r.signature # signature}
                \cup {[signature |-> signature, timestamp |-> timestamp]}]

\* a lookup without its WHERE clause
select_exists_any(rows, signature) == rows # {}

\* SELECT 1 FROM negative_cache WHERE signature = ?1, then stmt.exists
select_exists(rows, signature) == \E r \in rows : r.signature = signature

\* NegativeCache::open: the connection, and the table if it is not there
CacheOpen ==
    /\ probe.op = "cache" /\ ~probe.conn
    /\ probe' = [probe EXCEPT !.conn = TRUE, !.schema = TRUE, !.reopened = probe.schema]
    /\ UNCHANGED <<cacheDb, otherThanCache>>

\* the process ends and the connection with it
CacheClose ==
    /\ probe.op = "cache" /\ probe.conn
    /\ probe' = [probe EXCEPT !.conn = FALSE]
    /\ UNCHANGED <<cacheDb, otherThanCache>>

\* NegativeCache::is_cached
CacheIsCached(signature) ==
    /\ probe.op = "cache" /\ probe.conn /\ probe.schema
    /\ probe' = [probe EXCEPT !.lookup =
                   [ called |-> TRUE, signature |-> signature,
                     exists |-> select_exists(probe.rows, signature),
                     wasAdded |-> signature \in probe.added ]]
    /\ UNCHANGED <<cacheDb, otherThanCache>>

\* NegativeCache::add; io_ok is FALSE when SQLite reports an I/O error
CacheAdd(signature, timestamp, io_ok) ==
    /\ probe.op = "cache" /\ probe.conn /\ probe.schema
    /\ LET done == IF io_ok
                   THEN insert_or_replace(probe.rows, signature, timestamp)
                   ELSE [ok |-> FALSE, rows |-> probe.rows]
       IN  /\ probe' = [probe EXCEPT
                          !.rows = done.rows,
                          !.added = IF done.ok THEN @ \cup {signature} ELSE @,
                          !.insert = [ called |-> TRUE, signature |-> signature,
                                       io_ok |-> io_ok, ok |-> done.ok,
                                       before |-> cacheDb ]]
           /\ cacheDb' = {r.signature : r \in done.rows}
    /\ UNCHANGED otherThanCache

NextCache ==
    \/ CacheOpen
    \/ CacheClose
    \/ \E signature \in Fingerprints : CacheIsCached(signature)
    \/ \E signature \in Fingerprints : \E timestamp \in Times : \E io_ok \in BOOLEAN :
         CacheAdd(signature, timestamp, io_ok)

SpecCache == InitCache /\ [][NextCache]_vars

\* ------------------------------------------------------------------------
\* SpecSearch: one call of get_lyrics_smart for a track of the directory;
\* the catalog may answer with any status and with a candidate of any
\* similarity, in hundredths.
\* ------------------------------------------------------------------------
\* the titles get_lyrics_smart compares, per audio file
RelaxedTitleOf ==
    [f \in Files |->
        normalize_metadata(TagsOf(f).artist, TagsOf(f).title, TagsOf(f).album).title]
StrippedTitleOf ==
    [f \in Files |->
        get_stripped_title(
            normalize_metadata(TagsOf(f).artist, TagsOf(f).title, TagsOf(f).album))]

\* strsim::jaro_winkler lies between 0.0 and 1.0
AllSimValues == 0..100

AllResponses ==
    [status : {"OK"}, artist_sim : AllSimValues, title_sim : AllSimValues, synced : {TRUE}]
    \cup [status : {"NOT_FOUND", "OTHER"}, artist_sim : {0}, title_sim : {0}, synced : {FALSE}]

InitSearch ==
    /\ probe = [op |-> "search", called |-> FALSE]
    /\ sessionFile = NoSession
    /\ tempFile = NoSession
    /\ session = NoSession
    /\ dir = SmallDir
    /\ NoRunYet

\* client.get_lyrics_smart(&track) for the track of file f
Search(f, resp1, resp2) ==
    /\ probe.op = "search" /\ ~probe.called
    /\ probe' = [ op |-> "search", called |-> TRUE, file |-> f,
                  first |-> resp1, second |-> resp2,
                  out |-> get_lyrics_smart(f, resp1, resp2) ]
    /\ UNCHANGED <<sessionFile, tempFile, session, runVars>>

NextSearch ==
    /\ ~probe.called
    /\ \E f \in dir : \E resp1 \in AllResponses : \E resp2 \in SecondResponses(f) :
        Search(f, resp1, resp2)

SpecSearch == InitSearch /\ [][NextSearch]_vars

\* ------------------------------------------------------------------------
\* SpecCatalogFault: one run on TwinDir that the user leaves alone, in which
\* the catalog answers every request with a status that is neither success
\* nor not-found.
\* ------------------------------------------------------------------------
UnexpectedStatus == {r \in Responses : r.status = "OTHER"}

NextCatalogFault ==
    \/ Startup
    \/ \E w \in BagToSet(workers) : WorkerStart(w, MaxActive)
    \/ \E w \in BagToSet(workers) : WorkerCheckQuit(w)
    \/ \E w \in BagToSet(workers) : WorkerPauseWait(w)
    \/ \E w \in BagToSet(workers) : WorkerPop(w)
    \/ \E w \in BagToSet(workers) : \E extract_ok, cache_ok \in BOOLEAN :
           WorkerBegin(w, extract_ok, cache_ok)
    \/ \E w \in {x \in BagToSet(workers) : x.pc = "fetch"} : \E resp1 \in UnexpectedStatus :
         \E resp2 \in SecondResponses(w.item) : \E write_ok, cache_ok \in BOOLEAN :
           WorkerFetch(w, resp1, resp2, write_ok, cache_ok)
    \/ MainJoin
    \/ MainComplete

SpecCatalogFault == InitRun /\ [][NextCatalogFault]_vars

\* ------------------------------------------------------------------------
\* SpecClean: the cleaning transforms applied to a string of up to MaxLen
\* characters, and then to their own output.
\* ------------------------------------------------------------------------
CleanAlphabet == {"1", "_", " ", "a", "("}

CleanInputs == UNION {[1..n -> CleanAlphabet] : n \in 0..MaxLen}

InitClean ==
    /\ \E input \in CleanInputs : probe = [op |-> "clean", called |-> FALSE, input |-> input]
    /\ sessionFile = NoSession
    /\ tempFile = NoSession
    /\ session = NoSession
    /\ dir = SmallDir
    /\ NoRunYet

\* each transform on the input, and again on what it returned
Clean ==
    /\ probe.op = "clean" /\ ~probe.called
    /\ probe' = [ op |-> "clean", called |-> TRUE, input |-> probe.input,
                  string |-> clean_string(probe.input),
                  string2 |-> clean_string(clean_string(probe.input)),
                  keep |-> clean_title_keep_parens(probe.input),
                  keep2 |-> clean_title_keep_parens(clean_title_keep_parens(probe.input)),
                  title |-> clean_title(probe.input),
                  title2 |-> clean_title(clean_title(probe.input)) ]
    /\ UNCHANGED <<sessionFile, tempFile, session, runVars>>

NextClean == Clean

SpecClean == InitClean /\ [][NextClean]_vars

\* ------------------------------------------------------------------------
\* SpecLocks: the tasks of one run (fresh or resumed) on SmallDir, statement
\* by statement, with the tokio mutexes they lock: the queue, the session,
\* the cache, the three counters and the two flags.  A guard taken in an
\* expression statement or in an `if`/`while` condition is dropped at its
\* end; a guard bound by `let` lives to the end of its block.  The probe
\* holds who owns each mutex and where each worker task stands; the
\* coordinator's and the run's positions are coordPc and mainPc.  SQLite
\* errors, unreadable tags and failing writes happen; the negative cache
\* holds the song of f1.  The outbound messages of process_file are left
\* to the other specifications.
\* ------------------------------------------------------------------------
Mutexes ==
    {"work_queue", "session", "cache", "downloaded", "cached", "failed",
     "paused", "should_quit"}

WorkerTasks == {"worker0", "worker1"}

Tasks == WorkerTasks \cup {"coordinator", "run"}

\* the mutex whose lock() a task awaits at each position
Wants ==
    [ check_quit |-> "should_quit", pause_wait |-> "paused",
      sleep_check_quit |-> "should_quit", pop |-> "work_queue",
      is_cached |-> "cache", cache_add |-> "cache",
      count_failed |-> "failed", count_cached |-> "cached",
      count_downloaded |-> "downloaded", add_log |-> "session",
      pause_set |-> "paused", pause_session |-> "session",
      pause_queue |-> "work_queue", resume_set |-> "paused",
      quit_set |-> "should_quit", quit_paused |-> "paused",
      quit_session |-> "session", quit_queue |-> "work_queue",
      read_quit |-> "should_quit", final_downloaded |-> "downloaded",
      final_cached |-> "cached", final_failed |-> "failed" ]

PcOf(t) ==
    IF t = "coordinator" THEN coordPc
    ELSE IF t = "run" THEN mainPc
    ELSE probe.worker[t].pc

Held(t) == {m \in Mutexes : probe.holder[m] = t}

\* t is suspended in lock().await on a mutex another task owns
Blocked(t) ==
    /\ PcOf(t) \in DOMAIN Wants
    /\ probe.holder[Wants[PcOf(t)]] \notin {"free", t}

\* t is at the statement of position pc and owns the mutex it locks
Locked(t, pc) ==
    /\ PcOf(t) = pc
    /\ probe.holder[Wants[pc]] = t

Release(t, m) == [probe.holder EXCEPT ![m] = "free"]

otherThanLocks ==
    <<lrcFiles, dir, run, is_resuming, existing, workers, keys, files_to_process,
      popped, statVars, prevRun>>

InitLocks ==
    /\ \E resumed \in BOOLEAN :
         /\ is_resuming = resumed
         /\ paused = resumed
         /\ app = [NewAppState EXCEPT !.paused = resumed]
    /\ probe = [ op |-> "locks",
                 holder |-> [m \in Mutexes |-> "free"],
                 worker |-> [w \in WorkerTasks |-> [pc |-> "check_quit", item |-> NoItem]] ]
    /\ session = NewSession("root", <<"f1", "f2">>)
    /\ work_queue = <<"f1", "f2">>
    /\ files_to_process = <<"f1", "f2">>
    /\ sessionFile = NoSession
    /\ tempFile = NoSession
    /\ lrcFiles = {}
    /\ cacheDb = {SigHashOf["f1"]}
    /\ dir = SmallDir
    /\ run = 1
    /\ mainPc = "join"
    /\ coordPc = "recv"
    /\ downloaded = 0 /\ cached = 0 /\ failed = 0 /\ existing = 0
    /\ should_quit = FALSE
    /\ workers = EmptyBag
    /\ ui_rx = <<>>
    /\ tx = <<>>
    /\ keys = 0
    /\ popped = <<>>
    /\ outcome = [f \in Files |-> "none"]
    /\ lookups = Zero /\ rlWaits = Zero /\ queries = Zero
    /\ prevRun = [downloaded |-> {}, pausedQuit |-> FALSE]

\* Mutex::lock().await resolves: the mutex is free and t becomes its owner
MutexLock(t) ==
    /\ probe.op = "locks"
    /\ PcOf(t) \in DOMAIN Wants
    /\ probe.holder[Wants[PcOf(t)]] = "free"
    /\ probe' = [probe EXCEPT !.holder[Wants[PcOf(t)]] = t]
    /\ UNCHANGED <<sessionFile, tempFile, cacheDb, mainPc, coordPc, session, countVars,
                   work_queue, flagVars, ui_rx, tx, app, outcome, otherThanLocks>>

\* the statement of task t is over: the guard it took is dropped
Dropped(t) ==
    IF PcOf(t) \in DOMAIN Wants THEN Release(t, Wants[PcOf(t)]) ELSE probe.holder

\* the worker task w drops the guard of its statement and goes on at pc
GoesOn(w, pc, item) ==
    [probe EXCEPT !.holder = Dropped(w),
                  !.worker[w] = [pc |-> pc, item |-> item]]

\* if *should_quit.lock().await { break }
StmtCheckQuit(w) ==
    /\ Locked(w, "check_quit")
    /\ probe' = GoesOn(w, IF should_quit THEN "exited" ELSE "pause_wait", NoItem)
    /\ UNCHANGED <<sessionFile, tempFile, cacheDb, mainPc, coordPc, session, countVars,
                   work_queue, flagVars, ui_rx, tx, app, outcome, otherThanLocks>>

\* while *paused.lock().await
StmtPauseWait(w) ==
    /\ Locked(w, "pause_wait")
    /\ probe' = GoesOn(w, IF paused THEN "sleep" ELSE "pop", NoItem)
    /\ UNCHANGED <<sessionFile, tempFile, cacheDb, mainPc, coordPc, session, countVars,
                   work_queue, flagVars, ui_rx, tx, app, outcome, otherThanLocks>>

\* tokio::time::sleep(100 ms).await
StmtSleep(w) ==
    /\ probe.op = "locks"
    /\ PcOf(w) = "sleep"
    /\ probe' = GoesOn(w, "sleep_check_quit", NoItem)
    /\ UNCHANGED <<sessionFile, tempFile, cacheDb, mainPc, coordPc, session, countVars,
                   work_queue, flagVars, ui_rx, tx, app, outcome, otherThanLocks>>

\* if *should_quit.lock().await { return }
StmtSleepCheckQuit(w) ==
    /\ Locked(w, "sleep_check_quit")
    /\ probe' = GoesOn(w, IF should_quit THEN "exited" ELSE "pause_wait", NoItem)
    /\ UNCHANGED <<sessionFile, tempFile, cacheDb, mainPc, coordPc, session, countVars,
                   work_queue, flagVars, ui_rx, tx, app, outcome, otherThanLocks>>

\* a worker loop that takes the queue guard outside the block of the pop and
\* so keeps it while it processes the item
StmtPopKeepsGuard(w) ==
    /\ Locked(w, "pop")
    /\ IF work_queue = <<>>
       THEN /\ probe' = GoesOn(w, "exited", NoItem)
            /\ UNCHANGED work_queue
       ELSE /\ probe' = [probe EXCEPT !.worker[w] =
                            [pc |-> "extract", item |-> pop_front(work_queue).item]]
            /\ work_queue' = pop_front(work_queue).rest
    /\ UNCHANGED <<sessionFile, tempFile, cacheDb, mainPc, coordPc, session, countVars,
                   flagVars, ui_rx, tx, app, outcome, otherThanLocks>>

\* let path = { let mut queue = work_queue.lock().await; queue.pop_front() };
\* None ends the worker
StmtPop(w) ==
    /\ Locked(w, "pop")
    /\ IF work_queue = <<>>
       THEN /\ probe' = GoesOn(w, "exited", NoItem)
            /\ UNCHANGED work_queue
       ELSE /\ probe' = GoesOn(w, "extract", pop_front(work_queue).item)
            /\ work_queue' = pop_front(work_queue).rest
    /\ UNCHANGED <<sessionFile, tempFile, cacheDb, mainPc, coordPc, session, countVars,
                   flagVars, ui_rx, tx, app, outcome, otherThanLocks>>

\* semaphore.acquire().await (a permit per worker task), then process_file up
\* to metadata::extract
StmtExtract(w, extract_ok) ==
    /\ probe.op = "locks"
    /\ PcOf(w) = "extract"
    /\ probe.worker[w].item \notin dir => ~extract_ok
    /\ probe' = GoesOn(w, IF extract_ok THEN "is_cached" ELSE "count_failed",
                       probe.worker[w].item)
    /\ UNCHANGED <<tx, app>>
    /\ outcome' = IF extract_ok THEN outcome
                  ELSE [outcome EXCEPT ![probe.worker[w].item] = "error"]
    /\ UNCHANGED <<sessionFile, tempFile, cacheDb, mainPc, coordPc, session, countVars,
                   work_queue, flagVars, ui_rx, otherThanLocks>>

\* a process_file that binds the cache guard with `let` and so keeps it over
\* the rate limiter wait and the catalog call
StmtIsCachedKeepsGuard(w, cache_ok) ==
    /\ Locked(w, "is_cached")
    /\ LET f == probe.worker[w].item
       IN  IF ~cache_ok
           THEN /\ probe' = GoesOn(w, "check_quit", NoItem)
                /\ outcome' = [outcome EXCEPT ![f] = "aborted"]
                /\ UNCHANGED <<tx, app>>
           ELSE IF is_cached(SigHashOf[f])
           THEN /\ probe' = GoesOn(w, "count_cached", f)
                /\ UNCHANGED <<tx, app>>
                /\ outcome' = [outcome EXCEPT ![f] = "cached"]
           ELSE /\ probe' = [probe EXCEPT !.worker[w] = [pc |-> "until_ready", item |-> f]]
                /\ UNCHANGED <<tx, app, outcome>>
    /\ UNCHANGED <<sessionFile, tempFile, cacheDb, mainPc, coordPc, session, countVars,
                   work_queue, flagVars, ui_rx, otherThanLocks>>

\* if shared_state.cache.lock().await.is_cached(&sig_hash)? { .. }
StmtIsCached(w, cache_ok) ==
    /\ Locked(w, "is_cached")
    /\ LET f == probe.worker[w].item
       IN  IF ~cache_ok
           THEN /\ probe' = GoesOn(w, "check_quit", NoItem)
                /\ outcome' = [outcome EXCEPT ![f] = "aborted"]
                /\ UNCHANGED <<tx, app>>
           ELSE IF is_cached(SigHashOf[f])
           THEN /\ probe' = GoesOn(w, "count_cached", f)
                /\ UNCHANGED <<tx, app>>
                /\ outcome' = [outcome EXCEPT ![f] = "cached"]
           ELSE /\ probe' = GoesOn(w, "until_ready", f)
                /\ UNCHANGED <<tx, app, outcome>>
    /\ UNCHANGED <<sessionFile, tempFile, cacheDb, mainPc, coordPc, session, countVars,
                   work_queue, flagVars, ui_rx, otherThanLocks>>

\* rate_limiter.until_ready().await
StmtUntilReady(w) ==
    /\ probe.op = "locks"
    /\ PcOf(w) = "until_ready"
    /\ probe' = GoesOn(w, "get_lyrics", probe.worker[w].item)
    /\ UNCHANGED <<sessionFile, tempFile, cacheDb, mainPc, coordPc, session, countVars,
                   work_queue, flagVars, ui_rx, tx, app, outcome, otherThanLocks>>

\* match client.get_lyrics(&track).await and write_lrc_file
StmtGetLyrics(w, resp1, resp2, write_ok) ==
    /\ probe.op = "locks"
    /\ PcOf(w) = "get_lyrics"
    /\ LET f == probe.worker[w].item
           got == get_lyrics(f, resp1, resp2)
       IN  IF got.result = "Some" /\ got.lyrics.synced
           THEN IF write_ok
                THEN /\ probe' = GoesOn(w, "count_downloaded", f)
                     /\ UNCHANGED <<tx, app>>
                     /\ lrcFiles' = lrcFiles \cup {f}
                     /\ outcome' = [outcome EXCEPT ![f] = "downloaded"]
                ELSE /\ probe' = GoesOn(w, "count_failed", f)
                     /\ UNCHANGED <<tx, app>>
                     /\ outcome' = [outcome EXCEPT ![f] = "error"]
                     /\ UNCHANGED lrcFiles
           ELSE IF got.result = "Err"
           THEN /\ probe' = GoesOn(w, "count_failed", f)
                /\ UNCHANGED <<tx, app>>
                /\ outcome' = [outcome EXCEPT ![f] = "error"]
                /\ UNCHANGED lrcFiles
           ELSE /\ probe' = GoesOn(w, "cache_add", f)
                /\ UNCHANGED <<tx, app, outcome, lrcFiles>>
    /\ UNCHANGED <<sessionFile, tempFile, cacheDb, mainPc, coordPc, session, countVars,
                   work_queue, flagVars, ui_rx, dir, run, is_resuming, existing, workers,
                   keys, files_to_process, popped, statVars, prevRun>>

\* shared_state.cache.lock().await.add(&sig_hash)?
StmtCacheAdd(w, cache_ok) ==
    /\ Locked(w, "cache_add")
    /\ LET f == probe.worker[w].item
       IN  IF cache_ok
           THEN /\ probe' = GoesOn(w, "count_failed", f)
                /\ cacheDb' = cacheDb \cup {SigHashOf[f]}
                /\ UNCHANGED <<tx, app>>
                /\ outcome' = [outcome EXCEPT ![f] = "notfound"]
           ELSE /\ probe' = GoesOn(w, "check_quit", NoItem)
                /\ outcome' = [outcome EXCEPT ![f] = "aborted"]
                /\ UNCHANGED <<cacheDb, tx, app>>
    /\ UNCHANGED <<sessionFile, tempFile, mainPc, coordPc, session, countVars,
                   work_queue, flagVars, ui_rx, otherThanLocks>>

\* *shared_state.downloaded.lock().await += 1, or cached, or failed
StmtCount(w) ==
    /\ \E pc \in {"count_downloaded", "count_cached", "count_failed"} : Locked(w, pc)
    /\ downloaded' = downloaded + (IF PcOf(w) = "count_downloaded" THEN 1 ELSE 0)
    /\ cached' = cached + (IF PcOf(w) = "count_cached" THEN 1 ELSE 0)
    /\ failed' = failed + (IF PcOf(w) = "count_failed" THEN 1 ELSE 0)
    /\ probe' = GoesOn(w, "add_log", probe.worker[w].item)
    /\ UNCHANGED <<sessionFile, tempFile, cacheDb, mainPc, coordPc, session,
                   work_queue, flagVars, ui_rx, tx, app, outcome, otherThanLocks>>

\* shared_state.session.lock().await.add_log(filename, status); return Ok(())
StmtAddLog(w) ==
    /\ Locked(w, "add_log")
    /\ LET f == probe.worker[w].item
       IN  session' = add_log(session, f, Outcomes[outcome[f]].status)
    /\ probe' = GoesOn(w, "check_quit", NoItem)
    /\ UNCHANGED <<sessionFile, tempFile, cacheDb, mainPc, coordPc, countVars,
                   work_queue, flagVars, ui_rx, tx, app, outcome, otherThanLocks>>

\* while let Some(msg) = ui_rx.recv().await { match msg { .. } }
StmtRecv ==
    /\ probe.op = "locks"
    /\ coordPc = "recv"
    /\ ui_rx # <<>>
    /\ ui_rx' = Tail(ui_rx)
    /\ coordPc' = CASE Head(ui_rx) = "Pause" -> "pause_set"
                    [] Head(ui_rx) = "Resume" -> "resume_set"
                    [] Head(ui_rx) = "Quit" -> "quit_set"
    /\ UNCHANGED <<sessionFile, tempFile, cacheDb, mainPc, session, countVars,
                   work_queue, flagVars, tx, app, outcome, otherThanLocks, probe>>

\* *paused.lock().await = true, = false; *should_quit.lock().await = true
StmtSetFlag ==
    /\ \E pc \in {"pause_set", "resume_set", "quit_set"} : Locked("coordinator", pc)
    /\ paused' = IF coordPc = "pause_set" THEN TRUE
                 ELSE IF coordPc = "resume_set" THEN FALSE ELSE paused
    /\ should_quit' = IF coordPc = "quit_set" THEN TRUE ELSE should_quit
    /\ coordPc' = CASE coordPc = "pause_set" -> "pause_session"
                    [] coordPc = "resume_set" -> "recv"
                    [] coordPc = "quit_set" -> "quit_paused"
    /\ probe' = [probe EXCEPT !.holder = Dropped("coordinator")]
    /\ UNCHANGED <<sessionFile, tempFile, cacheDb, mainPc, session, countVars,
                   work_queue, ui_rx, tx, app, outcome, otherThanLocks>>

\* if *paused.lock().await { .. } break
StmtQuitIfPaused ==
    /\ Locked("coordinator", "quit_paused")
    /\ coordPc' = IF paused THEN "quit_session" ELSE "stopped"
    /\ probe' = [probe EXCEPT !.holder = Dropped("coordinator")]
    /\ UNCHANGED <<sessionFile, tempFile, cacheDb, mainPc, session, countVars,
                   work_queue, flagVars, ui_rx, tx, app, outcome, otherThanLocks>>

\* let mut sess = shared_state.session.lock().await: the guard is kept
StmtLockSession ==
    /\ \E pc \in {"pause_session", "quit_session"} : Locked("coordinator", pc)
    /\ coordPc' = IF coordPc = "pause_session" THEN "pause_queue" ELSE "quit_queue"
    /\ UNCHANGED <<sessionFile, tempFile, cacheDb, mainPc, session, countVars,
                   work_queue, flagVars, ui_rx, tx, app, outcome, otherThanLocks, probe>>

\* let remaining_files = work_queue.lock().await.iter().cloned().collect();
\* sess.pending_files = remaining_files
StmtCopyQueue ==
    /\ \E pc \in {"pause_queue", "quit_queue"} : Locked("coordinator", pc)
    /\ probe.holder["session"] = "coordinator"
    /\ session' = [session EXCEPT !.pending_files = work_queue]
    /\ coordPc' = IF coordPc = "pause_queue" THEN "pause_save" ELSE "quit_save"
    /\ probe' = [probe EXCEPT !.holder = Dropped("coordinator")]
    /\ UNCHANGED <<sessionFile, tempFile, cacheDb, mainPc, countVars,
                   work_queue, flagVars, ui_rx, tx, app, outcome, otherThanLocks>>

\* sess.save(&session_path); the arm ends and sess is dropped
StmtSave ==
    /\ probe.op = "locks"
    /\ coordPc \in {"pause_save", "quit_save"}
    /\ probe.holder["session"] = "coordinator"
    /\ sessionFile' = save(session)
    /\ tempFile' = NoSession
    /\ coordPc' = IF coordPc = "pause_save" THEN "recv" ELSE "stopped"
    /\ probe' = [probe EXCEPT !.holder = Release("coordinator", "session")]
    /\ UNCHANGED <<cacheDb, mainPc, session, countVars,
                   work_queue, flagVars, ui_rx, tx, app, outcome, otherThanLocks>>

\* for handle in worker_handles { handle.await }
StmtJoin ==
    /\ probe.op = "locks"
    /\ mainPc = "join"
    /\ \A w \in WorkerTasks : probe.worker[w].pc = "exited"
    /\ mainPc' = "read_quit"
    /\ UNCHANGED <<sessionFile, tempFile, cacheDb, coordPc, session, countVars,
                   work_queue, flagVars, ui_rx, tx, app, outcome, otherThanLocks, probe>>

\* if *should_quit.lock().await { return Ok(()) }
StmtReadQuit ==
    /\ Locked("run", "read_quit")
    /\ mainPc' = IF should_quit THEN "quit_return" ELSE "final_downloaded"
    /\ probe' = [probe EXCEPT !.holder = Dropped("run")]
    /\ UNCHANGED <<sessionFile, tempFile, cacheDb, coordPc, session, countVars,
                   work_queue, flagVars, ui_rx, tx, app, outcome, otherThanLocks>>

\* let final_downloaded = *shared_state.downloaded.lock().await; and the
\* same for cached and failed
StmtFinalCount ==
    /\ \E pc \in {"final_downloaded", "final_cached", "final_failed"} : Locked("run", pc)
    /\ mainPc' = CASE mainPc = "final_downloaded" -> "final_cached"
                   [] mainPc = "final_cached" -> "final_failed"
                   [] mainPc = "final_failed" -> "complete"
    /\ probe' = [probe EXCEPT !.holder = Dropped("run")]
    /\ UNCHANGED <<sessionFile, tempFile, cacheDb, coordPc, session, countVars,
                   work_queue, flagVars, ui_rx, tx, app, outcome, otherThanLocks>>

NextLocks ==
    \/ \E t \in Tasks : MutexLock(t)
    \/ UiKeyPause
    \/ UiKeyResume
    \/ UiKeyQuit
    \/ StmtRecv
    \/ StmtSetFlag
    \/ StmtQuitIfPaused
    \/ StmtLockSession
    \/ StmtCopyQueue
    \/ StmtSave
    \/ \E w \in WorkerTasks : StmtCheckQuit(w)
    \/ \E w \in WorkerTasks : StmtPauseWait(w)
    \/ \E w \in WorkerTasks : StmtSleep(w)
    \/ \E w \in WorkerTasks : StmtSleepCheckQuit(w)
    \/ \E w \in WorkerTasks : StmtPop(w)
    \/ \E w \in WorkerTasks : \E extract_ok \in BOOLEAN : StmtExtract(w, extract_ok)
    \/ \E w \in WorkerTasks : \E cache_ok \in BOOLEAN : StmtIsCached(w, cache_ok)
    \/ \E w \in WorkerTasks : StmtUntilReady(w)
    \/ \E w \in {x \in WorkerTasks : probe.op = "locks" /\ PcOf(x) = "get_lyrics"} :
         \E resp1 \in Responses : \E resp2 \in SecondResponses(probe.worker[w].item) :
           \E write_ok \in BOOLEAN : StmtGetLyrics(w, resp1, resp2, write_ok)
    \/ \E w \in WorkerTasks : \E cache_ok \in BOOLEAN : StmtCacheAdd(w, cache_ok)
    \/ \E w \in WorkerTasks : StmtCount(w)
    \/ \E w \in WorkerTasks : StmtAddLog(w)
    \/ StmtJoin
    \/ StmtReadQuit
    \/ StmtFinalCount
    \/ MainComplete

SpecLocks == InitLocks /\ [][NextLocks]_vars

\* ------------------------------------------------------------------------
\* SpecCancel: the runs of Spec under a fair scheduler.  tokio polls every
\* task that is ready, the sleep of the pause wait ends, the rate limiter
\* hands out its token and the catalog answers: a worker task that can take
\* a step eventually takes one.  Nothing is assumed of the user.
\* ------------------------------------------------------------------------
WorkerSteps ==
    \/ \E w \in BagToSet(workers) : WorkerStart(w, MaxActive)
    \/ \E w \in BagToSet(workers) : WorkerCheckQuit(w)
    \/ \E w \in BagToSet(workers) : WorkerPauseWait(w)
    \/ \E w \in BagToSet(workers) : WorkerSleep(w)
    \/ \E w \in BagToSet(workers) : WorkerPop(w)
    \/ \E w \in BagToSet(workers) : WorkerBegin(w, w.item \in dir, TRUE)
    \/ \E w \in {x \in BagToSet(workers) : x.pc = "fetch"} : \E resp1 \in BenignResponses :
         \E resp2 \in SecondResponses(w.item) : WorkerFetch(w, resp1, resp2, TRUE, TRUE)

SpecCancel == Init /\ [][Next]_vars /\ WF_vars(WorkerSteps)

\* ------------------------------------------------------------------------
\* SpecResume: one start-up on a disk that holds a well-formed session file:
\* a pending list of one to three files, counters of 0 or 1 and a log of up
\* to two entries.  The files of the directory are all there or not.
\* ------------------------------------------------------------------------
SavedLogs ==
    LET a == [filename |-> "f4", status |-> "Downloaded"]
        b == [filename |-> "f5", status |-> "NotFound"]
    IN  {<<>>, <<a>>, <<a, b>>, <<b, a>>}

SavedSessions ==
    { [ root_path |-> "root", pending_files |-> p,
        downloaded_count |-> d, cached_count |-> c, existing_count |-> e,
        failed_count |-> f, log_history |-> l ] :
      p \in {<<"f1">>, <<"f2", "f1">>, <<"f1", "f2", "f3">>},
      d \in 0..1, c \in 0..1, e \in 0..1, f \in 0..1, l \in SavedLogs }

InitResume ==
    /\ \E sess \in SavedSessions : sessionFile = save(sess)
    /\ dir \in {Files, {}}
    /\ tempFile = NoSession
    /\ session = NoSession
    /\ probe = NoProbe
    /\ NoRunYet

NextResume == Startup

SpecResume == InitResume /\ [][NextResume]_vars

\* ------------------------------------------------------------------------
\* SpecLive: the runs in which the user never quits, under a fair
\* scheduler: a worker task, the control message handler and worker::run
\* each take a step when they can (every catalog call and rate limiter wait
\* returns).  The user pauses and resumes as they like; the negative cache
\* (SQLite) may fail.
\* ------------------------------------------------------------------------
WorkerStepsLive ==
    \/ \E w \in BagToSet(workers) : WorkerStart(w, MaxActive)
    \/ \E w \in BagToSet(workers) : WorkerCheckQuit(w)
    \/ \E w \in BagToSet(workers) : WorkerPauseWait(w)
    \/ \E w \in BagToSet(workers) : WorkerSleep(w)
    \/ \E w \in BagToSet(workers) : WorkerPop(w)
    \/ \E w \in BagToSet(workers) : \E cache_ok \in BOOLEAN :
           WorkerBegin(w, w.item \in dir, cache_ok)
    \/ \E w \in {x \in BagToSet(workers) : x.pc = "fetch"} : \E resp1 \in BenignResponses :
         \E resp2 \in SecondResponses(w.item) : \E cache_ok \in BOOLEAN :
           WorkerFetch(w, resp1, resp2, TRUE, cache_ok)

CoordStepsLive ==
    \/ CoordPause
    \/ CoordPauseSave
    \/ CoordResume

MainStepsLive ==
    \/ MainJoin
    \/ MainComplete

NextLive ==
    \/ Startup
    \/ UiKeyPause
    \/ UiKeyResume
    \/ WorkerStepsLive
    \/ CoordStepsLive
    \/ MainStepsLive

SpecLive ==
    /\ Init
    /\ [][NextLive]_vars
    /\ WF_vars(Startup)
    /\ WF_vars(WorkerStepsLive)
    /\ WF_vars(CoordStepsLive)
    /\ WF_vars(MainStepsLive)

\* ------------------------------------------------------------------------
\* SpecPotential: the run of SpecRun against a catalog that answers every
\* request with a candidate that has a synced body and whose average
\* similarity is at least 0.60 and below 0.85 (a PotentialMatch).  Tags may
\* be unreadable and the artifact write may fail.
\* ------------------------------------------------------------------------
SyncedPotential ==
    {r \in Responses : search_with_fuzzy(r) = "PotentialMatch" /\ r.synced}

NextPotential ==
    \/ Startup
    \/ \E w \in BagToSet(workers) : WorkerStart(w, MaxActive)
    \/ \E w \in BagToSet(workers) : WorkerCheckQuit(w)
    \/ \E w \in BagToSet(workers) : WorkerPauseWait(w)
    \/ \E w \in BagToSet(workers) : WorkerPop(w)
    \/ \E w \in BagToSet(workers) : \E extract_ok \in BOOLEAN :
           WorkerBegin(w, extract_ok, TRUE)
    \/ \E w \in {x \in BagToSet(workers) : x.pc = "fetch"} : \E resp1 \in SyncedPotential :
         \E resp2 \in SecondResponses(w.item) : \E write_ok \in BOOLEAN :
           WorkerFetch(w, resp1, resp2, write_ok, TRUE)
    \/ MainJoin
    \/ MainComplete

SpecPotential == InitRun /\ [][NextPotential]_vars

\* ------------------------------------------------------------------------
\* Properties
\* ------------------------------------------------------------------------
\* the coordinator writes a checkpoint in this step: the Pause handler's save,
\* or the Quit handler's save with the pause flag set
PauseCheckpointStep == coordPc = "pause_save" /\ coordPc' = "recv"

QuitCheckpointStep == coordPc = "quit_save" /\ paused /\ coordPc' = "stopped"

\* the work items of the run that have not reached a terminal outcome
Unresolved == {f \in Range(files_to_process) : outcome[f] = "none"}

ScanCompleteSent == \E i \in DOMAIN tx : tx[i].type = "ScanComplete"

\* C1: when the coordinator handles Pause, the session it writes holds the
\* queue's remaining contents as its pending list and the live values of the
\* downloaded, cached and failed counters.
C1_PauseCheckpointHoldsQueueAndLiveCounters ==
    [][ PauseCheckpointStep =>
          /\ sessionFile' # NoSession
          /\ sessionFile'.pending_files = work_queue
          /\ sessionFile'.downloaded_count = downloaded
          /\ sessionFile'.cached_count = cached
          /\ sessionFile'.failed_count = failed ]_vars

\* C2: at every checkpoint (on Pause, and on Quit while paused) the persisted
\* pending list is exactly the set of work items of the run that have not yet
\* reached a terminal outcome.
C2_CheckpointPendingIsUnresolved ==
    [][ (PauseCheckpointStep \/ QuitCheckpointStep) =>
          /\ sessionFile' # NoSession
          /\ Range(sessionFile'.pending_files) = Unresolved ]_vars

\* C3: in a run that resumes the session of a run that was paused and then
\* quit, no item the interrupted run downloaded is in the queue.
C3_ResumedQueueHasNoDownloadedItem ==
    (is_resuming /\ prevRun.pausedQuit) =>
        Range(files_to_process) \cap prevRun.downloaded = {}

\* C4: while the pause flag is set the queue contents do not change: no worker
\* removes an item from it.
C4_NoPopWhilePaused ==
    [][ (paused /\ run' = run) => work_queue' = work_queue ]_vars

\* C5: once the quit flag is set, no worker pops a further item from the queue.
C5_NoPopAfterQuit ==
    [][ (should_quit /\ run' = run) => popped' = popped ]_vars

\* C6: after the join (all workers have exited) the run reads the quit flag.
\* Flag clear: the queue is empty, the run emits ScanComplete and deletes the
\* session file, and writes no checkpoint.  Flag set: the run returns; it has
\* emitted no ScanComplete and it never deletes the session file.
C6_CompleteDeletesQuitReturns ==
    [][ /\ (mainPc = "join" /\ mainPc' # "join") =>
              /\ AllExited
              /\ tx' = tx /\ sessionFile' = sessionFile
              /\ IF should_quit
                 THEN mainPc' = "quit_return"
                 ELSE mainPc' = "complete" /\ work_queue = <<>>
        /\ (mainPc = "complete" /\ mainPc' # "complete") =>
              /\ mainPc' = "done"
              /\ tx' = Append(tx, Msg("ScanComplete", NoItem))
              /\ sessionFile' = NoSession
              /\ session' = session
        /\ mainPc \in {"start", "join", "complete", "quit_return"} => ~ScanCompleteSent
        /\ (mainPc = "quit_return" /\ run' = run) =>
              /\ mainPc' = "quit_return"
              /\ ~ScanCompleteSent'
              /\ sessionFile # NoSession => sessionFile' # NoSession ]_vars

\* C6 happens: a resumed run (its session file existed) has completed, sent
\* ScanComplete last and the file is gone
C6_Witness ==
    /\ mainPc = "done" /\ is_resuming
    /\ sessionFile = NoSession
    /\ tx[Len(tx)].type = "ScanComplete"

\* C7: when the Quit handler finds the pause flag set it writes a checkpoint
\* whose pending list is the queue's remaining contents and then stops: it
\* reads no further control message.
C7_QuitWhilePausedCheckpoints ==
    [][ /\ (coordPc = "quit_save" /\ paused /\ coordPc' # "quit_save") =>
              /\ coordPc' = "stopped"
              /\ sessionFile' # NoSession
              /\ sessionFile'.pending_files = work_queue
        /\ (coordPc = "stopped" /\ run' = run) =>
              coordPc' = "stopped" /\ ui_rx' = ui_rx ]_vars

\* C7 happens: the coordinator has stopped after a Quit while paused, a worker
\* popped after the Pause checkpoint, and the file holds the queue as it is now
C7_Witness ==
    /\ coordPc = "stopped" /\ paused
    /\ sessionFile # NoSession
    /\ sessionFile.pending_files = work_queue
    /\ work_queue # <<>>
    /\ popped # <<>>

\* C8 as stated: once Quit is handled with the pause flag clear, the session
\* file is left unchanged from that point on.
C8_FileUnchangedAfterRunningQuit ==
    [][ (coordPc \in {"quit_save", "stopped"} /\ ~paused /\ run' = run) =>
          sessionFile' = sessionFile ]_vars

\* C8 amended: once Quit is handled with the pause flag clear, the coordinator
\* and the workers leave the session file unchanged; the only change left is
\* the deletion by a run that had read the quit flag clear after the join
\* before the Quit was handled and goes on to complete.
C8_FileUnchangedButForCompletion ==
    [][ (coordPc \in {"quit_save", "stopped"} /\ ~paused /\ run' = run) =>
          \/ sessionFile' = sessionFile
          \/ mainPc = "complete" /\ mainPc' = "done" /\ sessionFile' = NoSession ]_vars

\* C8 happens: Quit was handled with the flag clear while a session file
\* existed; workers popped since the file was written; the run has returned
\* and the file is as it was
C8_Witness ==
    /\ coordPc = "stopped" /\ ~paused
    /\ mainPc = "quit_return"
    /\ sessionFile # NoSession
    /\ sessionFile.pending_files # work_queue

\* C9: items are popped in the order they were enqueued: what has been popped,
\* followed by what is left, is the initial queue.
C9_PoppedInQueueOrder ==
    mainPc # "start" => popped \o work_queue = files_to_process

\* C9 happens: two items were popped, by whatever workers, in queue order
C9_Witness ==
    /\ Len(popped) = 2
    /\ popped = files_to_process
    /\ popped[1] # popped[2]

C11_CacheAddOnlyOnNotFound ==
    [][ /\ cacheDb' # cacheDb =>
              \E f \in Files :
                 /\ cacheDb' = cacheDb \cup {SigHashOf[f]}
                 /\ outcome[f] = "none" /\ outcome'[f] = "notfound"
                 /\ queries'[f] > queries[f]
                 /\ lrcFiles' = lrcFiles
        /\ \A f \in Files :
              (outcome'[f] # outcome[f]
                 /\ outcome'[f] \in {"downloaded", "error", "cached", "aborted"}) =>
                 cacheDb' = cacheDb ]_vars

\* C11 happens: the search for one copy of the song ended not-found and its
\* fingerprint is in the cache; the other copy ended in an extraction error
C11_Witness ==
    /\ outcome["f1"] = "notfound" /\ SigHashOf["f1"] \in cacheDb
    /\ outcome["f3"] = "error" /\ queries["f3"] = 0

C13_ItemErrorIsCountedLoggedAndSurvived ==
    [][ \A f \in Files :
          (outcome[f] = "none" /\ outcome'[f] = "error") =>
             /\ failed' = failed + 1
             /\ downloaded' = downloaded /\ cached' = cached
             /\ session'.log_history =
                   Append(session.log_history, [filename |-> f, status |-> "Error"])
             /\ \E w \in BagToSet(workers) :
                   w.item = f /\ workers' = Replace(w, Looping)
             /\ work_queue' = work_queue
             /\ should_quit' = should_quit
             /\ mainPc' = mainPc ]_vars

\* C13 happens: f1 ended in an extraction error and f3 in a write or transport
\* error, both are counted and logged, and the run went on to complete
C13_Witness ==
    /\ outcome["f1"] = "error" /\ lookups["f1"] = 0
    /\ outcome["f3"] = "error" /\ queries["f3"] = 1
    /\ failed = 2
    /\ Len(session.log_history) = 2
    /\ mainPc = "done"

\* C14: within one run no item is processed twice.  The queue only loses its
\* front item, one pop at a time, and nothing is put back; no item is popped
\* twice; an item is held by at most one worker, and by none once it has an
\* outcome; an outcome, whatever it is, is final.
C14_NoItemProcessedTwice ==
    [][ /\ mainPc # "start" =>
              \/ work_queue' = work_queue /\ popped' = popped
              \/ /\ work_queue # <<>>
                 /\ work_queue' = Tail(work_queue)
                 /\ popped' = Append(popped, Head(work_queue))
        /\ \A i, j \in DOMAIN popped' : i # j => popped'[i] # popped'[j]
        /\ \A f \in Files :
              /\ Holders(workers', f) <= 1
              /\ outcome'[f] # "none" => Holders(workers', f) = 0
              /\ outcome[f] # "none" => outcome'[f] = outcome[f]
              /\ Holders(workers', f) = 1 => f \in Range(popped') ]_vars

\* C14 happens: both items were popped once; one ended in an error, the other
\* not-found; the queue is empty and every worker has exited
C14_Witness ==
    /\ Len(popped) = 2
    /\ outcome["f1"] = "error"
    /\ outcome["f3"] = "notfound"
    /\ work_queue = <<>>
    /\ AllExited

\* C15: the rate limiter is waited on exactly once per searched item, in the
\* step that goes on to the catalog search and nowhere else: an item is never
\* waited for twice, every search is preceded by the item's one wait, every
\* wait is followed by the search, and an item that ends by an extraction
\* error (no cache lookup was made) or by a cache hit was never waited for.
C15_RateLimiterOnlyBeforeSearch ==
    [][ \A f \in Files :
          /\ rlWaits'[f] <= 1
          /\ queries'[f] > queries[f] => (rlWaits[f] = 0 /\ rlWaits'[f] = 1)
          /\ rlWaits'[f] > rlWaits[f] => (queries'[f] > queries[f] /\ lookups[f] = 1)
          /\ outcome'[f] = "cached" => rlWaits'[f] = 0
          /\ (outcome'[f] = "error" /\ lookups'[f] = 0) => rlWaits'[f] = 0 ]_vars

\* C15 happens: f1 was searched after one wait, f3 ended as a cache hit
\* without a wait
C15_Witness ==
    /\ rlWaits["f1"] = 1 /\ queries["f1"] = 1 /\ outcome["f1"] = "notfound"
    /\ rlWaits["f3"] = 0 /\ outcome["f3"] = "cached"

\* the items in flight: popped from the queue, not yet terminally resolved
InFlight == {f \in Range(popped) : outcome[f] = "none"}

\* C16: in every reachable state at most 5 items are in flight, each held by
\* exactly one of the at most 5 worker tasks.
C16_AtMostFiveInFlight ==
    /\ Cardinality(InFlight) <= 5
    /\ BagCardinality(workers) <= 5
    /\ \A f \in InFlight : Holders(workers, f) = 1

\* C16 happens: five items are in flight, one with each worker, while the
\* sixth is still in the queue
C16_Witness ==
    /\ Cardinality(InFlight) = 5
    /\ work_queue = <<"f6">>

\* what load returns for the file save(sess) leaves
Complete(sess) == [ok |-> TRUE, session |-> cap_log_history(sess)]

\* a load sees no file, the complete previous session or the complete new one
LoadSeesWhole(seen) ==
    \/ sessionFile = NoSession /\ ~seen.ok
    \/ probe.previous # NoSession /\ seen = Complete(probe.previous)
    \/ seen = Complete(session)

\* the final path changes only by the rename of the completely written
\* temporary file over it
ReplacedByRenameOnly ==
    sessionFile' # sessionFile =>
        /\ to_string_pretty(cap_log_history(session)).ok
        /\ tempFile = File(to_string_pretty(cap_log_history(session)).text)
        /\ sessionFile' = tempFile
        /\ tempFile' = NoSession

\* C17: the session file at its final path is only ever replaced by renaming
\* a completely written temporary file over it, and wherever save stops, a
\* load afterwards sees the complete previous session, the complete new
\* session or no file, never a partially written one.
C17_SaveIsAtomic ==
    /\ [](probe.op = "save" => LoadSeesWhole(load(sessionFile)))
    /\ [](probe.op = "save" /\ probe.pc = "loaded" => LoadSeesWhole(probe.loaded))
    /\ [][ReplacedByRenameOnly]_vars

\* C17 happens: the process stopped while the temporary file held a part of
\* the new text, and the load that followed returned the previous session,
\* which differs from the new one
C17_Witness ==
    /\ probe.op = "save" /\ probe.pc = "loaded"
    /\ probe.written > 0 /\ probe.written < Len(probe.json)
    /\ tempFile = File(SubSeq(probe.json, 1, probe.written))
    /\ probe.result = "none"
    /\ probe.previous # NoSession
    /\ probe.loaded = Complete(probe.previous)
    /\ probe.loaded # Complete(session)

\* the most recent entries of a log, MAX_LOG_HISTORY of them at most
MostRecent(log) ==
    SubSeq(log, Len(log) - Min(Len(log), MAX_LOG_HISTORY) + 1, Len(log))

\* save returned Ok and the file was loaded
SavedAndLoaded ==
    probe.op = "save" /\ probe.pc = "loaded" /\ probe.result = "Ok"

\* C18: saving a session and loading it back yields a session equal to the
\* saved one in root path, pending list (same order) and all four counters,
\* and whose log history is the most recent entries of the saved one, 500 at
\* most.
C18_RoundTrip ==
    SavedAndLoaded =>
        /\ probe.loaded.ok
        /\ probe.loaded.session.root_path = session.root_path
        /\ probe.loaded.session.pending_files = session.pending_files
        /\ probe.loaded.session.downloaded_count = session.downloaded_count
        /\ probe.loaded.session.cached_count = session.cached_count
        /\ probe.loaded.session.existing_count = session.existing_count
        /\ probe.loaded.session.failed_count = session.failed_count
        /\ Len(probe.loaded.session.log_history) <= 500
        /\ probe.loaded.session.log_history = MostRecent(session.log_history)

\* C18 happens: a session with two pending files, distinct counters and a log
\* past the cap was saved and loaded, and the loaded log is shorter
C18_Witness ==
    /\ SavedAndLoaded
    /\ session.pending_files = <<"f2", "f1">>
    /\ session.failed_count = MaxCount
    /\ Len(session.log_history) > MAX_LOG_HISTORY
    /\ Len(probe.loaded.session.log_history) < Len(session.log_history)

\* C19: after any sequence of add_log calls the log history has at most 500
\* entries and consists of the most recently added entries in insertion
\* order (the oldest are evicted first).
C19_LogKeepsMostRecent ==
    probe.op = "add_log" =>
        /\ Len(session.log_history) <= 500
        /\ \E from \in 1..(Len(probe.added) + 1) :
             /\ session.log_history = SubSeq(probe.added, from, Len(probe.added))
             /\ from > 1 => Len(session.log_history) = 500

\* C19 happens: more than 501 entries were added, the last ones by add_log
\* calls on a full log, and the log starts at the entry added 500 calls ago
C19_Witness ==
    /\ probe.op = "add_log"
    /\ Len(probe.added) > MAX_LOG_HISTORY + 1
    /\ session.log_history[1] = probe.added[Len(probe.added) - MAX_LOG_HISTORY + 1]
    /\ session.log_history[1] # probe.added[1]

\* missing files among the first min(10, n) pending files of the session
SampleMissing ==
    Cardinality({i \in 1..Min(10, Len(session.pending_files)) :
                    session.pending_files[i] \notin dir})

\* check_integrity has returned
IntegrityChecked == probe.op = "check_integrity" /\ probe.called

\* C20 as stated: the integrity check rejects a session when the number of
\* missing files in its pending-file sample (the first min(10, n) pending
\* files) is at least 5, and accepts every session whose sample has fewer
\* than 5 missing files.
C20_AcceptsEveryFewerThanFiveMissing ==
    IntegrityChecked =>
        /\ SampleMissing >= 5 => ~probe.is_valid
        /\ SampleMissing < 5 => probe.is_valid

\* C20, amended: the integrity check rejects a session when its sample has
\* at least 5 missing files or its pending list is empty, and accepts every
\* session with a non-empty pending list whose sample has fewer than 5
\* missing files.
C20_AcceptsNonEmptyFewerThanFiveMissing ==
    IntegrityChecked =>
        /\ SampleMissing >= 5 => ~probe.is_valid
        /\ session.pending_files = <<>> => ~probe.is_valid
        /\ session.pending_files # <<>> /\ SampleMissing < 5 => probe.is_valid

\* C20 happens: a session with more pending files than the sample holds and
\* five or more of them gone, only four of these inside the sample, was
\* checked and accepted
C20_Witness ==
    /\ IntegrityChecked
    /\ Len(session.pending_files) > 10
    /\ SampleMissing = 4
    /\ Cardinality(Range(session.pending_files) \ dir) >= 5
    /\ probe.is_valid

\* the pending files of a session that check_integrity samples
SampleOf(sess) ==
    SubSeq(sess.pending_files, 1, Min(10, Len(sess.pending_files)))

\* at least 5 in 10 of the sampled pending files are missing from disk
MostlyMissing(sess) ==
    /\ SampleOf(sess) # <<>>
    /\ 10 * Cardinality({i \in DOMAIN SampleOf(sess) : SampleOf(sess)[i] \notin dir})
          >= 5 * Len(SampleOf(sess))

\* C21: at startup, a loaded session whose sampled pending files are mostly
\* missing from disk is declared stale for every pending-list length: it is
\* not honoured, its file is deleted, and the run starts a fresh scan
\* instead of resuming.
C21_MostlyMissingSessionIsStale ==
    [][mainPc = "start" /\ mainPc' = "join"
       /\ sessionFile # NoSession /\ MostlyMissing(sessionFile)
       => /\ ~is_resuming'
          /\ sessionFile' = NoSession
          /\ work_queue' = walk_directory_parallel]_vars

\* C22: is_cached(f) returns true after add(f) and returns false for every
\* fingerprint that was never added, after any sequence of add and is_cached
\* calls on other fingerprints.
C22_IsCachedIffAdded ==
    probe.op = "cache" /\ probe.lookup.called =>
        probe.lookup.exists = probe.lookup.wasAdded

\* C22 happens: two of the three fingerprints were added, and the last
\* lookup returned true for the one that was not added last
C22_Witness ==
    /\ probe.op = "cache" /\ probe.lookup.called
    /\ Cardinality(probe.added) = 2
    /\ probe.insert.called /\ probe.insert.ok
    /\ probe.insert.signature # probe.lookup.signature
    /\ probe.lookup.exists

\* C23: a fingerprint once added to the negative cache stays cached: no
\* operation removes an entry, re-adding an existing fingerprint succeeds
\* and leaves the set of cached fingerprints unchanged, and the entries are
\* still present after the store is reopened at the same path.
C23_AddedStaysCached ==
    /\ [](probe.op = "cache" =>
            /\ probe.added \subseteq cacheDb
            /\ cacheDb = {r.signature : r \in probe.rows})
    /\ [][cacheDb \subseteq cacheDb']_vars
    /\ [][probe.op = "cache" /\ probe.conn' # probe.conn => cacheDb' = cacheDb]_vars
    /\ [](probe.op = "cache" /\ probe.insert.called
            /\ probe.insert.signature \in probe.insert.before =>
               /\ probe.insert.io_ok => probe.insert.ok
               /\ cacheDb = probe.insert.before)

\* C23 happens: the store was reopened, a fingerprint it held was added
\* again without error, and it holds two fingerprints
C23_Witness ==
    /\ probe.op = "cache" /\ probe.reopened /\ probe.conn
    /\ probe.insert.called /\ probe.insert.ok
    /\ probe.insert.signature \in probe.insert.before
    /\ Cardinality(cacheDb) = 2

\* get_lyrics_smart has returned
Searched == probe.op = "search" /\ probe.called

\* C24: if the relaxed-level catalog query classifies as Found or
\* PotentialMatch, search returns that outcome immediately and issues no
\* second (stripped-level) catalog query.
C24_MatchReturnsAtOnce ==
    Searched /\ search_with_fuzzy(probe.first) \in {"Found", "PotentialMatch"} =>
        /\ probe.out.result = search_with_fuzzy(probe.first)
        /\ probe.out.lyrics = probe.first
        /\ probe.out.requests = 1

\* C24 happens: the search for the title with a featuring clause and a
\* bracket qualifier got a candidate of average similarity 0.60 and
\* returned PotentialMatch
C24_Witness ==
    /\ Searched /\ probe.file = "f2"
    /\ probe.first.status = "OK"
    /\ probe.first.artist_sim + probe.first.title_sim = 120
    /\ probe.out.result = "PotentialMatch"

\* C25: the search strategy never issues the stripped-title catalog query
\* when the stripped title equals the relaxed title; in that case a NotFound
\* from the relaxed query is returned as NotFound after exactly one catalog
\* query.
C25_NoStrippedQueryForEqualTitle ==
    Searched /\ StrippedTitleOf[probe.file] = RelaxedTitleOf[probe.file] =>
        /\ probe.out.requests = 1
        /\ search_with_fuzzy(probe.first) = "NotFound" => probe.out.result = "NotFound"

\* C25 happens: the catalog answered the one query of a plain title with
\* the not-found status and the search returned NotFound
C25_Witness ==
    /\ Searched /\ probe.file = "f1"
    /\ StrippedTitleOf["f1"] = RelaxedTitleOf["f1"]
    /\ probe.first.status = "NOT_FOUND"
    /\ probe.out.result = "NotFound" /\ probe.out.requests = 1

\* the title carries a featuring-artist clause or a bracket qualifier
CarriesExtras(title) ==
    \/ \E i \in 1..Len(title) : FeatStartsAt(title, i)
    \/ \E i \in 1..Len(title) : title[i] \in {"(", "["}

ExtrasFiles == {f \in Files : CarriesExtras(TagsOf(f).title)}

\* C26: when the relaxed-level query yields NotFound for a title that
\* carries a featuring-artist clause or a bracket qualifier, the stripped
\* title differs from the relaxed title and search issues a second catalog
\* query, returning that query's outcome.
C26_StrippedQueryForTitleWithExtras ==
    Searched /\ probe.file \in ExtrasFiles
             /\ search_with_fuzzy(probe.first) = "NotFound" =>
        /\ StrippedTitleOf[probe.file] # RelaxedTitleOf[probe.file]
        /\ probe.out.requests = 2
        /\ probe.out.result = search_with_fuzzy(probe.second)

\* C27: a catalog candidate is classified by the average of its artist and
\* title similarity: Found when the average is at least 0.85, PotentialMatch
\* when it is at least 0.60 and below 0.85, and NotFound when it is below
\* 0.60, the same outcome as an empty catalog result.
C27_ClassifiedByAverage ==
    Searched /\ probe.first.status = "OK" =>
        LET twice == probe.first.artist_sim + probe.first.title_sim
            class == search_with_fuzzy(probe.first)
            empty == search_with_fuzzy(
                         [status |-> "NOT_FOUND", artist_sim |-> 0, title_sim |-> 0,
                          synced |-> FALSE])
        IN  /\ twice >= 170 => class = "Found" /\ probe.out.result = "Found"
            /\ twice >= 120 /\ twice < 170 =>
                 class = "PotentialMatch" /\ probe.out.result = "PotentialMatch"
            /\ twice < 120 => class = "NotFound" /\ class = empty

\* C27 happens: a candidate with artist similarity 0.70 and title similarity
\* 1.00, average exactly 0.85, was classified Found
C27_Witness ==
    /\ Searched /\ probe.first.status = "OK"
    /\ probe.first.artist_sim = 70 /\ probe.first.title_sim = 100
    /\ probe.out.result = "Found"

\* C28: a catalog response with the not-found status yields the NotFound
\* outcome (a value, not an error), while any status other than success or
\* not-found makes the search fail with an error, which the worker records
\* as a failed item with an Error log entry and without adding the
\* fingerprint to the negative cache.
C28_UnexpectedStatusIsItemError ==
    /\ [](\A r \in Responses :
            /\ r.status = "NOT_FOUND" => search_with_fuzzy(r) = "NotFound"
            /\ r.status \notin {"OK", "NOT_FOUND"} => search_with_fuzzy(r) = "Err")
    /\ [][ \A f \in Files :
             queries'[f] > queries[f] =>
                /\ outcome'[f] = "error"
                /\ failed' = failed + 1
                /\ session'.log_history =
                      Append(session.log_history, [filename |-> f, status |-> "Error"])
                /\ tx' = tx \o <<Msg("Error", f)>>
                /\ cacheDb' = cacheDb ]_vars
    /\ [](cacheDb = {})

\* C28 happens: the catalog was asked once for each item, both items are
\* failed with an Error log entry and the negative cache is empty
C28_Witness ==
    /\ queries["f1"] = 1 /\ queries["f3"] = 1
    /\ outcome["f1"] = "error" /\ outcome["f3"] = "error"
    /\ failed = 2
    /\ \A i \in 1..2 : session.log_history[i].status = "Error"
    /\ Len(session.log_history) = 2
    /\ cacheDb = {}

\* C29: the cleaning transforms are idempotent for every input string:
\* applying the relaxed normalization (clean_string /
\* clean_title_keep_parens) or the stripped transform (clean_title) to its
\* own output returns that output unchanged.
C29_CleaningIsIdempotent ==
    probe.op = "clean" /\ probe.called =>
        /\ probe.string2 = probe.string
        /\ probe.keep2 = probe.keep
        /\ probe.title2 = probe.title

\* the position of a status in Idle, Restoring, Scanning, Processing, Complete
StatusRank(s) ==
    CASE s = "Idle" -> 0
      [] s = "Restoring" -> 1
      [] s = "Scanning" -> 2
      [] s = "Processing" -> 3
      [] s = "Complete" -> 4

\* the status after the first i messages of the stream sent in this run
StatusAfter(i) == AppUpdateAll(NewAppState, SubSeq(tx, 1, i)).status

\* C30: the run status derived from the outbound message stream only moves
\* forward through Idle, Restoring, Scanning, Processing, Complete.  At every
\* message of the stream the status does not move back; it becomes Restoring
\* only in a run resumed from a session, Scanning only in a fresh run,
\* Complete only from Processing, and after Complete it stays Complete.  The
\* status the front end shows never moves back within a run either.
C30_StatusOnlyMovesForward ==
    /\ [](\A i \in 1..Len(tx) :
            LET before == StatusAfter(i - 1)
                after == StatusAfter(i)
            IN  /\ StatusRank(before) <= StatusRank(after)
                /\ (after = "Restoring" /\ before # "Restoring") => is_resuming
                /\ (after = "Scanning" /\ before # "Scanning") => ~is_resuming
                /\ (after = "Complete" /\ before # "Complete") => before = "Processing"
                /\ before = "Complete" => after = "Complete")
    /\ [][ run' = run =>
             /\ StatusRank(app.status) <= StatusRank(app'.status)
             /\ (app.status = "Complete" => app'.status = "Complete") ]_vars

\* C30 happens: a run resumed from a session sent a stream that went through
\* Restoring and Processing, never through Scanning, and ended in Complete
C30_Witness ==
    /\ is_resuming
    /\ StatusAfter(1) = "Restoring"
    /\ \E i \in 1..Len(tx) : tx[i].type = "TrackProcessing"
    /\ \A i \in 1..Len(tx) : StatusAfter(i) # "Scanning"
    /\ StatusAfter(Len(tx) - 1) = "Processing"
    /\ StatusAfter(Len(tx)) = "Complete"
    /\ app.status = "Complete"

\* C31: a worker holds at most one of the shared locks (queue, session,
\* cache, counters, pause flag, quit flag) at any time, and holds none of
\* them while it waits for a rate limiter token or while its catalog call is
\* in progress.
C31_WorkerHoldsAtMostOneLock ==
    probe.op = "locks" =>
        \A w \in WorkerTasks :
            /\ Cardinality(Held(w)) <= 1
            /\ PcOf(w) \in {"until_ready", "get_lyrics"} => Held(w) = {}

\* C31 happens: one worker is in its catalog call and holds nothing while
\* the other holds the session lock to add its log entry
C31_Witness ==
    /\ probe.op = "locks"
    /\ \E w, v \in WorkerTasks :
         /\ PcOf(w) = "get_lyrics" /\ Held(w) = {}
         /\ PcOf(v) = "add_log" /\ Held(v) = {"session"}

\* the tasks of S wait for each other: each is suspended on a mutex that
\* another task of S owns
WaitForEachOther(S) ==
    \A t \in S : Blocked(t) /\ probe.holder[Wants[PcOf(t)]] \in S

\* C39: the coordinator and the workers never deadlock on the shared locks.
\* The coordinator is the only task that holds two locks at once, and then
\* they are the session lock, taken first, and the queue lock; no reachable
\* state has a set of tasks, let alone all of them, each waiting for a lock
\* held by another of them.
C39_NoDeadlockOnLocks ==
    probe.op = "locks" =>
        /\ \A t \in Tasks :
             Cardinality(Held(t)) >= 2 =>
                t = "coordinator" /\ Held(t) = {"session", "work_queue"}
        /\ "work_queue" \in Held("coordinator") => "session" \in Held("coordinator")
        /\ \A S \in SUBSET Tasks : S # {} => ~WaitForEachOther(S)
        /\ ~(\A t \in Tasks : Blocked(t))

\* C39 happens: the coordinator holds the session lock and waits for the
\* queue lock that one worker holds in its pop, while the other worker waits
\* for the session lock to add its log entry
C39_Witness ==
    /\ probe.op = "locks"
    /\ Held("coordinator") = {"session"}
    /\ Blocked("coordinator")
    /\ \E w, v \in WorkerTasks :
         /\ PcOf(w) = "pop" /\ Held(w) = {"work_queue"}
         /\ PcOf(v) = "add_log" /\ Blocked(v)

\* the ends of an item that the front end is told of
Terminal == {"downloaded", "notfound", "cached", "error"}

\* C32: cancellation is cooperative.  After Quit is handled every worker
\* eventually exits, whether it was running or blocked in the pause wait,
\* and an item that a worker holds when the quit flag is set (its catalog
\* call or artifact write in progress) is carried through to its terminal
\* outcome rather than aborted.
C32_QuitEndsEveryWorker ==
    /\ should_quit ~> (workers # EmptyBag /\ AllExited)
    /\ [][ \A f \in Files :
             (should_quit /\ run' = run /\ Holders(workers, f) = 1
                /\ Holders(workers', f) = 0)
                => (outcome[f] = "none" /\ outcome'[f] \in Terminal) ]_vars

\* C32 happens: Quit was handled while one worker was blocked in the pause
\* wait and another had its catalog call in progress
C32_Witness ==
    /\ should_quit /\ paused
    /\ \E w, v \in BagToSet(workers) : w.pc = "sleep" /\ v.pc = "fetch"

\* C33: a run resumed from a session starts with its work queue equal to
\* the session's pending list in the same order and its downloaded, cached
\* and failed counters equal to the session's persisted counters, and it
\* emits restoring-started, counts-restored (processed = downloaded + cached
\* + failed) and one log-restore per persisted log entry in order, all
\* before scan-started.
C33_ResumeRestoresQueueCountsAndLog ==
    [][ (mainPc = "start" /\ mainPc' = "join" /\ is_resuming') =>
           LET sess == sessionFile
               n == Len(sess.log_history)
           IN  /\ work_queue' = sess.pending_files
               /\ downloaded' = sess.downloaded_count
               /\ cached' = sess.cached_count
               /\ failed' = sess.failed_count
               /\ Len(tx') = n + 3
               /\ tx'[1].type = "SessionRestoring"
               /\ tx'[2].type = "CountsRestored"
               /\ tx'[2].downloaded = sess.downloaded_count
               /\ tx'[2].cached = sess.cached_count
               /\ tx'[2].skipped = sess.existing_count
               /\ tx'[2].processed =
                     sess.downloaded_count + sess.cached_count + sess.failed_count
               /\ \A i \in 1..n :
                     /\ tx'[2 + i].type = "LogRestore"
                     /\ tx'[2 + i].path = sess.log_history[i].filename
                     /\ tx'[2 + i].status = sess.log_history[i].status
               /\ tx'[n + 3].type = "ScanStarted" ]_vars

\* C33 happens: a run resumed a session with three pending files, one file
\* counted in each counter and two log entries
C33_Witness ==
    /\ is_resuming /\ mainPc = "join"
    /\ work_queue = <<"f1", "f2", "f3">>
    /\ downloaded = 1 /\ cached = 1 /\ failed = 1 /\ existing = 1
    /\ Len(tx) = 5
    /\ tx[2].processed = 3
    /\ tx[3].path = "f5" /\ tx[4].path = "f4"

\* the pause flag of a resumed run is set and no worker has got past the
\* pause wait: nothing was popped and no worker is about to pop or holds an
\* item
GateShut ==
    /\ is_resuming
    /\ paused
    /\ popped = <<>>
    /\ work_queue = files_to_process
    /\ \A w \in BagToSet(workers) : w.pc \in {"spawned", "loop", "pause_wait", "sleep", "exited"}

\* C34: in a run resumed from a session the pause flag starts set, so no
\* worker pops any item until a Resume control message has been handled; in
\* a fresh run the pause flag starts clear.  The start-up sets the flag (and
\* the front end's) exactly in a resumed run, where it leaves the gate shut;
\* within the run the gate is opened by nothing but the handling of a
\* Resume message.
C34_ResumedRunStartsPaused ==
    /\ [][ (mainPc = "start" /\ mainPc' = "join") =>
              /\ paused' = is_resuming'
              /\ app'.paused = is_resuming'
              /\ is_resuming' => GateShut' ]_vars
    /\ [][ (GateShut /\ ~GateShut' /\ run' = run) =>
              /\ coordPc = "recv"
              /\ ui_rx # <<>> /\ Head(ui_rx) = "Resume"
              /\ ui_rx' = Tail(ui_rx)
              /\ ~paused' ]_vars

\* C34 happens: in a resumed run a worker popped an item after the Resume
\* message was handled
C34_Witness ==
    /\ is_resuming
    /\ ~paused
    /\ popped # <<>>
    /\ \E w \in BagToSet(workers) : w.pc = "fetch"

\* the terminal status messages sent for item f in this run
TerminalMsgs(stream, f) ==
    {i \in 1..Len(stream) :
        /\ stream[i].type \in {"LyricsFound", "LyricsNotFound", "CacheHit", "Error"}
        /\ stream[i].path = f}

\* C35: every item that a worker pops and finishes processing increments
\* exactly one of the downloaded, cached and failed counters by one, appends
\* exactly one entry to the session log and emits exactly one terminal
\* status message, for every outcome of extraction, cache lookup, search,
\* artifact write and cache insert; hence at scan-complete downloaded +
\* cached + failed equals the restored counts plus the number of items in
\* the initial queue.
C35_EveryFinishedItemCountedOnce ==
    /\ [][ \A f \in Files :
             (run' = run /\ Holders(workers, f) = 1 /\ Holders(workers', f) = 0) =>
                /\ downloaded' >= downloaded /\ cached' >= cached /\ failed' >= failed
                /\ downloaded' + cached' + failed' = downloaded + cached + failed + 1
                /\ Len(session'.log_history) = Len(session.log_history) + 1
                /\ session'.log_history[Len(session'.log_history)].filename = f
                /\ Cardinality(TerminalMsgs(tx', f)) = 1 ]_vars
    /\ [](mainPc = "done" =>
            downloaded + cached + failed =
               session.downloaded_count + session.cached_count + session.failed_count
               + Len(files_to_process))

\* C36: once a run has completed successfully and deleted its session file,
\* no later control message (Pause, Resume or Quit) causes a session file
\* to be written: the session file stays absent until the next run.
C36_NoSessionFileAfterCompletion ==
    mainPc = "done" => sessionFile = NoSession

\* C37: whenever a session file exists on disk after a run has ended (by
\* quit or completion), no item in its pending list reached a terminal
\* outcome (found, not-found, cache-hit or error) during that run, for every
\* sequence of Pause, Resume and Quit messages.
C37_PendingItemsAreNotTerminal ==
    (mainPc \in {"quit_return", "done"} /\ coordPc \in {"recv", "stopped"}
       /\ sessionFile # NoSession) =>
        \A i \in 1..Len(sessionFile.pending_files) :
            outcome[sessionFile.pending_files[i]] \notin Terminal

\* the places of ScanComplete in the stream sent in this run
ScanCompletes == {i \in 1..Len(tx) : tx[i].type = "ScanComplete"}

\* C38: in a run where no Quit is sent, every Pause (and the initial pause
\* of a resumed run) is eventually followed by a Resume, and every catalog
\* call and rate limiter wait returns, every item of the initial queue
\* eventually reaches a terminal outcome, all workers exit, and
\* scan-complete is emitted exactly once as the last outbound message.
C38_RunWithoutQuitCompletes ==
    (paused ~> ~paused) =>
        <>[]( /\ mainPc = "done"
              /\ workers # EmptyBag /\ AllExited
              /\ \A i \in 1..Len(files_to_process) :
                    outcome[files_to_process[i]] \in Terminal
              /\ ScanCompletes = {Len(tx)} )

\* C40: the worker handles a PotentialMatch outcome (average similarity at
\* least 0.60 and below 0.85) exactly as a Found outcome.  Every step that
\* ends the catalog call of an item on a synced PotentialMatch is a step that
\* process_file takes on a synced Found candidate; the artifact is written,
\* lyrics-found is emitted, the downloaded counter is incremented and the
\* log entry is Downloaded, unless the write fails and the item is an error.
C40_PotentialMatchHandledAsFound ==
    [][ \A f \in Files :
          queries'[f] > queries[f] =>
            /\ \E w \in {x \in BagToSet(workers) : x.pc = "fetch" /\ x.item = f} :
                 \E found \in SyncedFound : \E write_ok \in BOOLEAN :
                    WorkerFetch(w, found, NoResponse, write_ok, TRUE)
            /\ \/ /\ outcome'[f] = "downloaded"
                  /\ lrcFiles' = lrcFiles \cup {f}
                  /\ tx' = Append(tx, Msg("LyricsFound", f))
                  /\ downloaded' = downloaded + 1
                  /\ cached' = cached /\ failed' = failed
                  /\ session'.log_history =
                        Append(session.log_history, [filename |-> f, status |-> "Downloaded"])
                  /\ cacheDb' = cacheDb
               \/ /\ outcome'[f] = "error"
                  /\ lrcFiles' = lrcFiles ]_vars

\* C40 happens: both items were answered with a PotentialMatch and both
\* artifacts are written and counted as downloaded
C40_Witness ==
    /\ queries["f1"] = 1 /\ queries["f3"] = 1
    /\ outcome["f1"] = "downloaded" /\ outcome["f3"] = "downloaded"
    /\ lrcFiles = {"f1", "f3"}
    /\ downloaded = 2 /\ failed = 0
    /\ mainPc = "done"

====
